---- MODULE Spec2Model ----
(***************************************************************************)
(* Authentication & synchronization engine of the EVE inventory manager.   *)
(*                                                                         *)
(*   SpecAuth    PKCE authorization flow   (ESIAuthManager, IPC handlers)  *)
(*   SpecClient  resilient API client      (ESIClient)                     *)
(*   SpecQueue   dispatch queue with time  (ESIClient rate-limit queue)    *)
(*   SpecSync    fetch-or-cache policy     (EnhancedESIClient, AssetService)*)
(*   SpecGroup   containment grouping      (Inventory.groupAssetsByLocation)*)
(*                                                                         *)
(* Every specification owns a group of variables and leaves the others     *)
(* unchanged.                                                              *)
(***************************************************************************)
EXTENDS Integers, Sequences, FiniteSets, TLC

\* ------------------------------------------------------------------ bounds
NAttempts == 2        \* callback-processing flows of the authorization part
NCalls == 1           \* logical API calls issued through the client
NChars == 1           \* identities with a stored credential
MaxRateLimited == 1   \* 420/429 answers one logical call may receive
MaxTicks == 1         \* clock steps of the client part
TickMs == 1200000     \* milliseconds per clock step
ExpiresInSec == 1200  \* expires_in the token endpoint answers with
MaxWaiting == 2       \* requests waiting in the dispatch queue at once
MaxIdleMs == 2        \* milliseconds the dispatch queue may sit idle in total
MaxWindowStart == 1   \* latest start (ms) of the observed 1-second window
NSyncChars == 2       \* identities with a record cache
NSyncFlows == 1       \* getCharacterAssetsWithFallback calls
NItems == 2           \* item ids of the remote listing
SyncTickSec == 1801   \* seconds per clock step of the synchronization part
MaxSyncTicks == 1     \* clock steps of the synchronization part
BatchRecords == 1     \* records per insert batch (batchSize, scaled down)
MaxAssets == 3        \* records handed to groupAssetsByLocation
MaxOccupied == 1      \* ports from 8080 upwards that other programs may hold
WaitMs == 3000        \* milliseconds of one free waiting step of the listener part
MaxWaits == 1         \* free waiting steps of the listener part

VARIABLES
  \* ---- ESIAuthManager (ipc-handlers.ts 290-415)
  authState,          \* this.authState: 0 is null, n >= 1 the n-th issued state
  codeVerifier,       \* this.codeVerifier: 0 is null, n >= 1 the n-th verifier
  issued,             \* number of initiateAuth calls so far (the last issued state)
  apc,                \* position of each flow in the state machine of the flow
  aurl,               \* the callback URL handed to handleCallback by each flow
  aexpected,          \* the last issued state when handleCallback was entered
  areason,            \* why a flow failed
  atokenReq,          \* token-endpoint requests sent by each flow
  averifyReq,         \* identity-verification requests sent by each flow
  averifier,          \* the code_verifier sent with the token request
  aissued             \* the state and verifier initiateAuth issued for each flow, 0 is none

authVars == <<authState, codeVerifier, issued, apc, aurl, aexpected, areason,
              atokenReq, averifyReq, averifier, aissued>>

VARIABLES
  \* ---- AuthStore (unnamed/part_005)
  characters,         \* store.characters: identity -> encrypted credential or NoAuth
  last_selected_character,  \* 0 is undefined
  \* ---- provider and clock
  tokensIssued,       \* token pairs the token endpoint has issued so far
  cnow,               \* Date.now() in ms
  \* ---- ESIClient (esi-client.ts 7-169)
  rateLimitQueue,     \* this.rateLimitQueue: the waiting requests, oldest first
  isProcessingQueue,  \* this.isProcessingQueue
  timerArmed,         \* the setTimeout of processRateLimitQueue is pending
  calls               \* the logical calls: position, request config, history

storeVars == <<characters, last_selected_character>>
queueCoreVars == <<rateLimitQueue, isProcessingQueue, timerArmed>>
clientVars == <<storeVars, tokensIssued, cnow, queueCoreVars, calls>>

VARIABLES
  \* ---- the dispatch queue against the clock (esi-client.ts 86-111)
  qnow,               \* time in ms
  timerDue,           \* when the pending timer expires
  qseq,               \* requests that have entered the queue so far
  qidle,              \* milliseconds spent with the queue idle
  windowStart,        \* start of the observed window [windowStart, windowStart + 1 s)
  inWindow,           \* requests released inside the observed window
  qreleased           \* arrival number of the request released last, 0 is none

queueVars == <<qnow, timerDue, qseq, qidle, windowStart, inWindow, qreleased>>

VARIABLES
  \* ---- AssetService / EnhancedESIClient (unnamed/part_004, esi-client.ts 308-371)
  assetsDb,           \* character_assets: identity -> set of cached rows
  lastSync,           \* characters.last_sync per identity, 0 is null
  snow,               \* Math.floor(Date.now() / 1000)
  dbTurn,             \* the flow whose event-loop task is running, 0 is none
  flows               \* the getCharacterAssetsWithFallback calls

syncVars == <<assetsDb, lastSync, snow, dbTurn, flows>>

VARIABLES
  \* ---- Inventory.groupAssetsByLocation (Inventory.tsx 209-264)
  assets,             \* the record set, in the order it is iterated
  gidx,               \* index of the next record of the forEach
  grouped,            \* group key -> item ids of the group, in push order
  processedAssets     \* item ids marked as processed

groupVars == <<assets, gidx, grouped, processedAssets>>

VARIABLES
  \* ---- CallbackServer (callback-server.ts) against the clock
  server,             \* this.server: the attempt whose server it is, 0 is null
  port,               \* this.port
  sock,               \* per attempt: the socket of the server startServer created
  timeoutAt,          \* per attempt: when the 5-minute timer fires, 0 is none
  graceAt,            \* per attempt: when the 6-second timer fires, 0 is none
  redirectPort,       \* per attempt: the port of the redirect_uri it advertised
  occupied,           \* ports held by other programs
  lnow,               \* time in ms
  lwaits              \* free waiting steps taken

listenVars == <<server, port, sock, timeoutAt, graceAt, redirectPort, occupied,
                lnow, lwaits>>

VARIABLES
  \* ---- concurrent refreshCharacterToken calls (esi-client.ts 150-169)
  rflows              \* the calls: position, the refresh token read, the pair received

refreshVars == <<rflows>>

VARIABLES
  \* ---- the 420/429 branch of the response interceptor against the clock
  bnow,               \* time in seconds
  bcall               \* the logical call: position, timer, history

backoffVars == <<bnow, bcall>>

VARIABLES
  \* ---- the characters table of the database (unnamed/part_002, part_003)
  dbCharacters,       \* identities that have a row
  storeOp             \* the last operation on the AuthStore and its argument

dbVars == <<dbCharacters, storeOp>>

laterVars == <<refreshVars, backoffVars, dbVars>>

\* ---- state of the parts that follow the store
VARIABLES
  \* ---- Inventory.formatLocationInfo (Inventory.tsx 141-207)
  fasset,             \* the record handed to formatLocationInfo,
  finfo               \* what it returned, Pending before the call

formatVars == <<fasset, finfo>>

VARIABLES
  \* ---- getCharacterAssetsWithEnhancedLocationData (esi-client.ts 376-420)
  rassets,            \* the cached records of the identity: their location ids, in row order,
  locationMap,        \* location id -> the resolved location object its records share,
  ridx,               \* index of the record the for loop is at, 0 before the loop,
  lookups,            \* structure id -> getStructureInfo calls issued,
  lookupsFailed,      \* structure id -> getStructureInfo calls that failed,
  rresult             \* pending, returned or failed

resolveVars == <<rassets, locationMap, ridx, lookups, lookupsFailed, rresult>>

VARIABLES
  \* ---- the expiry checks of the two credential stores (part_005 164-172, part_003 207-215)
  enow,               \* Date.now() in ms,
  eticks,             \* clock steps taken,
  storeExpires,       \* AuthStore: token_expires of the identity, 0 without credential,
  dbExpires,          \* characters row: tokenExpires of the identity, 0 without row,
  expired             \* the answers of the two expiry checks, NotAsked before

expiryVars == <<enow, eticks, storeExpires, dbExpires, expired>>

moreVars == <<formatVars, resolveVars, expiryVars>>

notFormat == <<authVars, clientVars, queueVars, syncVars, groupVars, listenVars, laterVars,
    resolveVars, expiryVars>>
notResolve == <<authVars, clientVars, queueVars, syncVars, groupVars, listenVars, laterVars,
    formatVars, expiryVars>>
notExpiry == <<authVars, clientVars, queueVars, syncVars, groupVars, listenVars, laterVars,
    formatVars, resolveVars>>

vars == <<authVars, clientVars, queueVars, syncVars, groupVars, listenVars, laterVars,
         moreVars>>

notAuth == <<clientVars, queueVars, syncVars, groupVars, listenVars, laterVars, moreVars>>
notListen == <<clientVars, queueVars, syncVars, groupVars, laterVars, moreVars>>
notClient == <<authVars, queueVars, syncVars, groupVars, listenVars, laterVars, moreVars>>
notQueue == <<authVars, storeVars, tokensIssued, cnow, calls, syncVars, groupVars,
              listenVars, laterVars, moreVars>>
notSync == <<authVars, clientVars, queueVars, groupVars, listenVars, laterVars, moreVars>>
notGroup == <<authVars, clientVars, queueVars, syncVars, listenVars, laterVars, moreVars>>

\* ==================================================== PKCE authorization
Attempts == 1..NAttempts

\* state query parameter of a callback URL: 0 is "no state parameter", 1..NAttempts
\* are the values initiateAuth can issue, NAttempts + 1 a value never issued.
StateParams == 0..(NAttempts + 1)

\* What handleCallback reads from a callback URL (ipc-handlers.ts 362-365).
CallbackUrls == [state : StateParams, code : BOOLEAN, error : BOOLEAN]

NoUrl == [state |-> 0, code |-> FALSE, error |-> FALSE]

InitAuth ==
  /\ authState = 0
  /\ codeVerifier = 0
  /\ issued = 0
  /\ apc = [a \in Attempts |-> "idle"]
  /\ aurl = [a \in Attempts |-> NoUrl]
  /\ aexpected = [a \in Attempts |-> 0]
  /\ areason = [a \in Attempts |-> "none"]
  /\ atokenReq = [a \in Attempts |-> 0]
  /\ averifyReq = [a \in Attempts |-> 0]
  /\ averifier = [a \in Attempts |-> 0]
  /\ aissued = [a \in Attempts |-> 0]

\* initiateAuth: a fresh verifier and state overwrite the manager's fields, the
\* listener is started and the flow waits for its callback.
InitiateAuthCore(a) ==
  /\ apc[a] = "idle"
  /\ issued' = issued + 1
  /\ codeVerifier' = issued + 1
  /\ authState' = issued + 1
  /\ apc' = [apc EXCEPT ![a] = "awaiting_callback"]
  /\ aissued' = [aissued EXCEPT ![a] = issued + 1]
  /\ UNCHANGED <<aurl, aexpected, areason, atokenReq, averifyReq, averifier>>

InitiateAuth(a) == InitiateAuthCore(a) /\ UNCHANGED notAuth

StateValidSkipped(state) == TRUE

\* if (state !== this.authState) throw: a missing parameter reads as null.
StateValid(state) == state = authState

\* handleCallback up to its first await: the checks in source order, then the
\* token request leaves with the verifier the manager holds now.
HandleCallbackEntry(a, u) ==
  /\ aurl' = [aurl EXCEPT ![a] = u]
  /\ aexpected' = [aexpected EXCEPT ![a] = issued]
  /\ IF u.error
       THEN /\ apc' = [apc EXCEPT ![a] = "failed"]
            /\ areason' = [areason EXCEPT ![a] = "provider_denied"]
            /\ UNCHANGED <<atokenReq, averifier>>
     ELSE IF ~StateValid(u.state)
       THEN /\ apc' = [apc EXCEPT ![a] = "failed"]
            /\ areason' = [areason EXCEPT ![a] = "csrf_mismatch"]
            /\ UNCHANGED <<atokenReq, averifier>>
     ELSE IF ~u.code
       THEN /\ apc' = [apc EXCEPT ![a] = "failed"]
            /\ areason' = [areason EXCEPT ![a] = "no_code"]
            /\ UNCHANGED <<atokenReq, averifier>>
     ELSE IF codeVerifier = 0
       THEN /\ apc' = [apc EXCEPT ![a] = "failed"]
            /\ areason' = [areason EXCEPT ![a] = "no_verifier"]
            /\ UNCHANGED <<atokenReq, averifier>>
     ELSE /\ apc' = [apc EXCEPT ![a] = "exchanging_code"]
          /\ atokenReq' = [atokenReq EXCEPT ![a] = @ + 1]
          /\ averifier' = [averifier EXCEPT ![a] = codeVerifier]
          /\ UNCHANGED areason
  /\ UNCHANGED <<authState, codeVerifier, issued, averifyReq, aissued>>

\* The listener resolves the pending promise with the redirect URL, whatever the
\* browser sent, and handleInitiateAuth hands it to handleCallback.
CallbackReceivedCore(a) ==
  /\ apc[a] = "awaiting_callback"
  /\ \E u \in CallbackUrls : HandleCallbackEntry(a, u)

CallbackReceived(a) == CallbackReceivedCore(a) /\ UNCHANGED notAuth

\* auth:callback hands any URL to handleCallback without an initiateAuth of its own.
HandleAuthCallbackCore(a) ==
  /\ apc[a] = "idle"
  /\ \E u \in CallbackUrls : HandleCallbackEntry(a, u)

HandleAuthCallback(a) == HandleAuthCallbackCore(a) /\ UNCHANGED notAuth

\* The 5-minute timer of startServer rejects the pending promise.
AuthTimeoutCore(a) ==
  /\ apc[a] = "awaiting_callback"
  /\ apc' = [apc EXCEPT ![a] = "failed"]
  /\ areason' = [areason EXCEPT ![a] = "timeout"]
  /\ UNCHANGED <<authState, codeVerifier, issued, aurl, aexpected, atokenReq,
                 averifyReq, averifier, aissued>>

AuthTimeout(a) == AuthTimeoutCore(a) /\ UNCHANGED notAuth

\* exchangeCodeForTokens answers: on success getCharacterInfo sends the
\* verification request.
TokenResponseCore(a) ==
  /\ apc[a] = "exchanging_code"
  /\ \E ok \in BOOLEAN :
       IF ok
         THEN /\ apc' = [apc EXCEPT ![a] = "verifying_identity"]
              /\ averifyReq' = [averifyReq EXCEPT ![a] = @ + 1]
              /\ UNCHANGED areason
         ELSE /\ apc' = [apc EXCEPT ![a] = "failed"]
              /\ areason' = [areason EXCEPT ![a] = "exchange_failed"]
              /\ UNCHANGED averifyReq
  /\ UNCHANGED <<authState, codeVerifier, issued, aurl, aexpected, atokenReq,
                 averifier, aissued>>

TokenResponse(a) == TokenResponseCore(a) /\ UNCHANGED notAuth

\* getCharacterInfo answers: on success the credential is assembled and the
\* temporary auth data cleared.
VerifyResponseCore(a) ==
  /\ apc[a] = "verifying_identity"
  /\ \E ok \in BOOLEAN :
       IF ok
         THEN /\ apc' = [apc EXCEPT ![a] = "complete"]
              /\ codeVerifier' = 0
              /\ authState' = 0
              /\ UNCHANGED areason
         ELSE /\ apc' = [apc EXCEPT ![a] = "failed"]
              /\ areason' = [areason EXCEPT ![a] = "verify_failed"]
              /\ UNCHANGED <<codeVerifier, authState>>
  /\ UNCHANGED <<issued, aurl, aexpected, atokenReq, averifyReq, averifier, aissued>>

VerifyResponse(a) == VerifyResponseCore(a) /\ UNCHANGED notAuth

NextAuth ==
  \E a \in Attempts :
    \/ InitiateAuth(a)
    \/ CallbackReceived(a)
    \/ HandleAuthCallback(a)
    \/ AuthTimeout(a)
    \/ TokenResponse(a)
    \/ VerifyResponse(a)

\* ---------------------------------------------------------------- C1
\* A flow that has entered handleCallback.
CallbackHandled(a) == apc[a] \in {"exchanging_code", "verifying_identity", "complete", "failed"}
                        /\ areason[a] # "timeout"

\* C1: every callback URL handed to handleCallback whose state parameter differs
\* from the anti-forgery state issued by the latest initiateAuth (another value,
\* or no state parameter) makes handleCallback fail, and neither a token-endpoint
\* request nor an identity-verification request is sent for it.
C1_StateMismatchRejected ==
  \A a \in Attempts :
    (CallbackHandled(a) /\ aurl[a].state # aexpected[a])
      => /\ apc[a] = "failed"
         /\ atokenReq[a] = 0
         /\ averifyReq[a] = 0

\* A callback carrying a code and no error, with a state other than the one in
\* flight, has been rejected while an attempt was awaiting its callback.
C1_Witness ==
  \E a \in Attempts :
    /\ apc[a] = "failed"
    /\ areason[a] = "csrf_mismatch"
    /\ aexpected[a] >= 1
    /\ aurl[a].code
    /\ aurl[a].state # aexpected[a]

\* ======================================================= credential store
Chars == 1..NChars

NoAuth == [access |-> 0, refresh |-> 0, expires |-> 0]

\* AES under the store's key: the ciphertext differs from the token and
\* decrypts back to it.
Encrypt(data) == 0 - data
Decrypt(encryptedData) == 0 - encryptedData

\* getCharacterAuth: the stored record with both tokens decrypted, or null.
GetCharacterAuth(chars, characterId) ==
  IF chars[characterId] = NoAuth
    THEN NoAuth
    ELSE [chars[characterId] EXCEPT !.access = Decrypt(@), !.refresh = Decrypt(@)]

\* isTokenExpired: no credential, or token_expires < Date.now() + 300000.
EXPIRY_MARGIN_MS == 300000

IsTokenExpired(chars, characterId, now) ==
  \/ GetCharacterAuth(chars, characterId) = NoAuth
  \/ GetCharacterAuth(chars, characterId).expires < now + EXPIRY_MARGIN_MS

\* updateCharacterAuth with the token updates of refreshCharacterToken (the
\* caller has checked that the identity is stored).
UpdateCharacterAuth(chars, characterId, access, refresh, expires) ==
  [chars EXCEPT ![characterId] =
     [access |-> Encrypt(access), refresh |-> Encrypt(refresh), expires |-> expires]]

\* A removal that leaves the selected-identity pointer alone.
KeepSelected(chars, selected, characterId) == selected

\* removeCharacterAuth: delete the record; a selected-identity pointer at it moves
\* to the first remaining key, or is deleted when none remains.
RemoveCharacters(chars, characterId) == [chars EXCEPT ![characterId] = NoAuth]

Remaining(chars) == {c \in DOMAIN chars : chars[c] # NoAuth}

RemoveSelected(chars, selected, characterId) ==
  IF selected # characterId THEN selected
  ELSE IF Remaining(RemoveCharacters(chars, characterId)) # {}
    THEN CHOOSE c \in Remaining(RemoveCharacters(chars, characterId)) :
           \A d \in Remaining(RemoveCharacters(chars, characterId)) : c <= d
  ELSE 0

\* ============================================================= API client
Calls == 1..NCalls

\* HTTP statuses the provider answers an API request with.
Statuses == {200, 401, 420, 429, 500}

IdleCall == [pc |-> "idle", char |-> 0, auth |-> 0, hdr |-> 0, retry |-> FALSE,
             refreshTok |-> 0, dispatched |-> <<>>, n401 |-> 0, nRefresh401 |-> 0,
             nRedispatch401 |-> 0, refreshOk401 |-> FALSE, nRateLimited |-> 0,
             proBefore |-> 0, proAfter |-> 0, reason |-> "none"]

\* The credentials the authorization flow stored at time 0: identity c holds the
\* c-th token pair, valid for expires_in seconds.
InitClient ==
  /\ characters = [c \in Chars |->
       [access |-> Encrypt(c), refresh |-> Encrypt(c), expires |-> ExpiresInSec * 1000]]
  /\ last_selected_character = 1
  /\ tokensIssued = NChars
  /\ cnow = 0
  /\ rateLimitQueue = <<>>
  /\ isProcessingQueue = FALSE
  /\ timerArmed = FALSE
  /\ calls = [k \in Calls |-> IdleCall]

\* A queue that hands out the newest waiting request first (what shift() of
\* the oldest rules out).
ProcessNewestFirst(q, busy) ==
  IF busy \/ Len(q) = 0
    THEN [queue |-> q, busy |-> busy, next |-> 0, arm |-> FALSE]
    ELSE [queue |-> SubSeq(q, 1, Len(q) - 1), busy |-> TRUE, next |-> q[Len(q)],
          arm |-> TRUE]

\* processRateLimitQueue on queue q with flag busy: nothing when busy or empty,
\* otherwise the oldest resolver is shifted out and called and the timer armed.
ProcessRateLimitQueue(q, busy) ==
  IF busy \/ Len(q) = 0
    THEN [queue |-> q, busy |-> busy, next |-> 0, arm |-> FALSE]
    ELSE [queue |-> Tail(q), busy |-> TRUE, next |-> Head(q), arm |-> TRUE]

\* The request whose resolver was called leaves the interceptor and is
\* dispatched with the Authorization header its config holds.
Released(cs, next) ==
  IF next = 0 THEN cs
  ELSE [cs EXCEPT ![next] = [@ EXCEPT !.pc = "in_flight",
                                      !.dispatched = Append(@, cs[next].hdr)]]

\* A request of call k enters the request interceptor (addToRateLimitQueue: push,
\* then processRateLimitQueue); cs is the state of the calls at that point.
AddToRateLimitQueue(k, cs) ==
  LET r == ProcessRateLimitQueue(Append(rateLimitQueue, k), isProcessingQueue) IN
    /\ rateLimitQueue' = r.queue
    /\ isProcessingQueue' = r.busy
    /\ timerArmed' = (timerArmed \/ r.arm)
    /\ calls' = Released([cs EXCEPT ![k] = [@ EXCEPT !.pc = "queued"]], r.next)

\* The timer of processRateLimitQueue fires: the flag is cleared and the queue
\* processed again.
QueueTimerFires ==
  /\ timerArmed
  /\ LET r == ProcessRateLimitQueue(rateLimitQueue, FALSE) IN
       /\ rateLimitQueue' = r.queue
       /\ isProcessingQueue' = r.busy
       /\ timerArmed' = r.arm
       /\ calls' = Released(calls, r.next)
  /\ UNCHANGED <<storeVars, tokensIssued, cnow>>
  /\ UNCHANGED notClient

\* An unauthenticated call (getTypeInfo, getServerStatus, ...): client.get.
UnauthenticatedRequest(k) ==
  /\ calls[k].pc = "idle"
  /\ AddToRateLimitQueue(k, calls)
  /\ UNCHANGED <<storeVars, tokensIssued, cnow>>
  /\ UNCHANGED notClient

\* The token makeAuthenticatedRequest puts in the Authorization header: that of
\* auth, the record read at the start of the call (refreshedAuth is only tested
\* for null).
HeaderToken(auth, refreshedAuth) == auth.access

\* makeAuthenticatedRequest up to its first await.
MakeAuthenticatedRequest(k) ==
  /\ calls[k].pc = "idle"
  /\ \E c \in Chars :
       LET auth == GetCharacterAuth(characters, c) IN
         IF auth = NoAuth
           THEN /\ calls' = [calls EXCEPT ![k] =
                      [@ EXCEPT !.pc = "failed", !.char = c, !.reason = "unauthenticated"]]
                /\ UNCHANGED queueCoreVars
         ELSE IF IsTokenExpired(characters, c, cnow)
           THEN /\ calls' = [calls EXCEPT ![k] =
                      [@ EXCEPT !.pc = "proactive_refresh", !.char = c,
                                !.auth = auth.access, !.refreshTok = auth.refresh,
                                !.proBefore = auth.access]]
                /\ UNCHANGED queueCoreVars
         ELSE AddToRateLimitQueue(k,
                [calls EXCEPT ![k] = [@ EXCEPT !.char = c, !.auth = auth.access,
                                               !.hdr = HeaderToken(auth, auth)]])
  /\ UNCHANGED <<storeVars, tokensIssued, cnow>>
  /\ UNCHANGED notClient

\* The token endpoint answers the refresh started before dispatch.
ProactiveRefreshResponse(k) ==
  /\ calls[k].pc = "proactive_refresh"
  /\ \E ok \in BOOLEAN :
       LET c == calls[k].char
           t == tokensIssued + 1
           updated == UpdateCharacterAuth(characters, c, t, t, cnow + ExpiresInSec * 1000)
       IN
         IF ~ok
           THEN \* refreshToken throws; refreshCharacterToken logs and rethrows
                /\ calls' = [calls EXCEPT ![k] =
                      [@ EXCEPT !.pc = "failed", !.reason = "proactive_refresh_failed"]]
                /\ UNCHANGED <<characters, tokensIssued, queueCoreVars>>
         ELSE IF characters[c] = NoAuth
           THEN \* updateCharacterAuth throws: the identity left the store meanwhile
                /\ tokensIssued' = t
                /\ calls' = [calls EXCEPT ![k] =
                      [@ EXCEPT !.pc = "failed", !.reason = "update_failed"]]
                /\ UNCHANGED <<characters, queueCoreVars>>
         ELSE /\ tokensIssued' = t
              /\ characters' = updated
              /\ AddToRateLimitQueue(k,
                   [calls EXCEPT ![k] =
                      [@ EXCEPT !.proAfter = GetCharacterAuth(updated, c).access,
                                !.hdr = HeaderToken([access |-> calls[k].auth],
                                                    GetCharacterAuth(updated, c))]])
  /\ UNCHANGED <<last_selected_character, cnow>>
  /\ UNCHANGED notClient

RetryAllowedAlways(retry) == TRUE

\* error.response.status === 401 && !originalRequest._retry
RetryAllowed(retry) == ~retry

\* The provider answers the request in flight; the response interceptor runs up
\* to its first await.
Response(k) ==
  /\ calls[k].pc = "in_flight"
  /\ \E status \in Statuses :
       LET c == calls[k].char IN
         IF status = 200
           THEN /\ calls' = [calls EXCEPT ![k] = [@ EXCEPT !.pc = "done", !.reason = "ok"]]
                /\ UNCHANGED storeVars
         ELSE IF status = 401 /\ RetryAllowed(calls[k].retry)
           THEN IF c = 0
             THEN \* no _characterId: falls through to Promise.reject
                  /\ calls' = [calls EXCEPT ![k] =
                        [@ EXCEPT !.pc = "failed", !.retry = TRUE, !.n401 = @ + 1,
                                  !.reason = "http_error"]]
                  /\ UNCHANGED storeVars
             ELSE IF characters[c] = NoAuth
             THEN \* refreshCharacterToken throws before any exchange; the catch
                  \* removes the (absent) record and the error is rejected
                  /\ calls' = [calls EXCEPT ![k] =
                        [@ EXCEPT !.pc = "failed", !.retry = TRUE, !.n401 = @ + 1,
                                  !.reason = "refresh_no_auth"]]
                  /\ characters' = RemoveCharacters(characters, c)
                  /\ last_selected_character' =
                       RemoveSelected(characters, last_selected_character, c)
             ELSE /\ calls' = [calls EXCEPT ![k] =
                        [@ EXCEPT !.pc = "reactive_refresh", !.retry = TRUE,
                                  !.n401 = @ + 1, !.nRefresh401 = @ + 1,
                                  !.refreshTok = GetCharacterAuth(characters, c).refresh]]
                  /\ UNCHANGED storeVars
         ELSE IF status = 401
           THEN /\ calls' = [calls EXCEPT ![k] =
                      [@ EXCEPT !.pc = "failed", !.n401 = @ + 1, !.reason = "second_401"]]
                /\ UNCHANGED storeVars
         ELSE IF status \in {420, 429}
           THEN /\ calls[k].nRateLimited < MaxRateLimited
                /\ calls' = [calls EXCEPT ![k] =
                      [@ EXCEPT !.pc = "backoff", !.nRateLimited = @ + 1]]
                /\ UNCHANGED storeVars
         ELSE /\ calls' = [calls EXCEPT ![k] =
                    [@ EXCEPT !.pc = "failed", !.reason = "http_error"]]
              /\ UNCHANGED storeVars
  /\ UNCHANGED <<tokensIssued, cnow, queueCoreVars>>
  /\ UNCHANGED notClient

\* The retry-after wait is over: this.client(originalRequest).
BackoffElapsed(k) ==
  /\ calls[k].pc = "backoff"
  /\ AddToRateLimitQueue(k, calls)
  /\ UNCHANGED <<storeVars, tokensIssued, cnow>>
  /\ UNCHANGED notClient

\* The token endpoint answers the refresh started by a 401.
ReactiveRefreshResponse(k) ==
  /\ calls[k].pc = "reactive_refresh"
  /\ \E ok \in BOOLEAN :
       LET c == calls[k].char
           t == tokensIssued + 1
           updated == UpdateCharacterAuth(characters, c, t, t, cnow + ExpiresInSec * 1000)
       IN
         IF ~ok
           THEN \* catch (refreshError): removeCharacterAuth, then Promise.reject
                /\ calls' = [calls EXCEPT ![k] =
                      [@ EXCEPT !.pc = "failed", !.reason = "reactive_refresh_failed"]]
                /\ characters' = RemoveCharacters(characters, c)
                /\ last_selected_character' =
                     RemoveSelected(characters, last_selected_character, c)
                /\ UNCHANGED <<tokensIssued, queueCoreVars>>
         ELSE IF characters[c] = NoAuth
           THEN \* updateCharacterAuth throws, caught like a refresh failure
                /\ tokensIssued' = t
                /\ calls' = [calls EXCEPT ![k] =
                      [@ EXCEPT !.pc = "failed", !.reason = "update_failed"]]
                /\ characters' = RemoveCharacters(characters, c)
                /\ last_selected_character' =
                     RemoveSelected(characters, last_selected_character, c)
                /\ UNCHANGED queueCoreVars
         ELSE \* the header is rewritten from the store and the request re-dispatched
              /\ tokensIssued' = t
              /\ characters' = updated
              /\ UNCHANGED last_selected_character
              /\ AddToRateLimitQueue(k,
                   [calls EXCEPT ![k] =
                      [@ EXCEPT !.hdr = GetCharacterAuth(updated, c).access,
                                !.refreshOk401 = TRUE,
                                !.nRedispatch401 = @ + 1]])
  /\ UNCHANGED cnow
  /\ UNCHANGED notClient

\* Time passes.
ClientTick ==
  /\ cnow < MaxTicks * TickMs
  /\ cnow' = cnow + TickMs
  /\ UNCHANGED <<storeVars, tokensIssued, queueCoreVars, calls>>
  /\ UNCHANGED notClient

NextClient ==
  \/ QueueTimerFires
  \/ ClientTick
  \/ \E k \in Calls :
       \/ UnauthenticatedRequest(k)
       \/ MakeAuthenticatedRequest(k)
       \/ ProactiveRefreshResponse(k)
       \/ Response(k)
       \/ BackoffElapsed(k)
       \/ ReactiveRefreshResponse(k)

\* ---------------------------------------------------------------- C2
Authenticated(k) == calls[k].char # 0

\* C2: a call made while the stored credential is expired dispatches nothing
\* before its token refresh has completed, and the Authorization header of the
\* request it then dispatches carries the access token the store holds after
\* that refresh, not the one it held before.
C2_HeaderCarriesRefreshedToken ==
  \A k \in Calls :
    /\ calls[k].pc = "proactive_refresh" => Len(calls[k].dispatched) = 0
    /\ (calls[k].proAfter # 0 /\ Len(calls[k].dispatched) >= 1)
         => /\ calls[k].dispatched[1] = calls[k].proAfter
            /\ calls[k].dispatched[1] # calls[k].proBefore

\* ---------------------------------------------------------------- C3
Ended(k) == calls[k].pc \in {"done", "failed"}

\* C3 as claimed: once the first 401 of an authenticated call has been handled,
\* the client has performed exactly one token refresh and one re-dispatch for it,
\* never more, and a 401 answered to the re-dispatched request ends the call.
C3_ExactlyOneRefreshAndRedispatch ==
  \A k \in Calls :
    Authenticated(k) =>
      /\ calls[k].nRefresh401 <= 1
      /\ calls[k].nRedispatch401 <= 1
      /\ (calls[k].n401 >= 1 /\ calls[k].pc # "reactive_refresh")
           => (calls[k].nRefresh401 = 1 /\ calls[k].nRedispatch401 = 1)
      /\ calls[k].n401 >= 2 => calls[k].pc = "failed"

\* C3 (amended): for the first 401 of an authenticated call whose credential is
\* still stored the client starts exactly one token refresh, and it re-dispatches
\* the request exactly once when that refresh succeeds and not at all when it
\* fails; it never does more than one of either, whatever 401, 420/429 and other
\* answers follow: a 401 answered to the re-dispatched request ends the call
\* with an error and starts no further refresh.
C3_AtMostOneRefreshAndRedispatch ==
  \A k \in Calls :
    Authenticated(k) =>
      /\ calls[k].nRefresh401 <= 1
      /\ calls[k].nRedispatch401 <= 1
      /\ calls[k].n401 <= 2
      /\ (calls[k].n401 >= 1 /\ calls[k].reason # "refresh_no_auth")
           => calls[k].nRefresh401 = 1
      /\ calls[k].pc # "reactive_refresh"
           => (calls[k].nRedispatch401 = 1 <=> calls[k].refreshOk401)
      /\ (Ended(k) /\ Len(calls[k].dispatched) >= 1)
           => Len(calls[k].dispatched) =
                1 + calls[k].nRateLimited + (IF calls[k].refreshOk401 THEN 1 ELSE 0)
      /\ calls[k].n401 = 2
           => /\ calls[k].pc = "failed"
              /\ calls[k].reason = "second_401"
              /\ calls[k].nRefresh401 = 1
              /\ calls[k].nRedispatch401 = 1

\* A call was answered 401, refreshed, was re-dispatched, rate limited on the
\* way, and answered 401 again.
C3_Witness ==
  \E k \in Calls :
    /\ calls[k].n401 = 2
    /\ calls[k].nRateLimited >= 1
    /\ calls[k].reason = "second_401"

\* ---------------------------------------------------------------- C4
\* C4: when the request re-dispatched after a 401-triggered refresh is itself
\* answered 401, the call fails and the credential of the identity is no longer
\* in the store.
C4_SecondUnauthorizedInvalidates ==
  \A k \in Calls :
    calls[k].reason = "second_401"
      => /\ calls[k].pc = "failed"
         /\ GetCharacterAuth(characters, calls[k].char) = NoAuth

\* ---------------------------------------------------------------- C5
\* C5: when a token refresh has failed at the token endpoint, proactive or
\* 401-triggered, the credential of the identity is no longer in the store when
\* the failure reaches the caller.
C5_RefreshFailureInvalidates ==
  \A k \in Calls :
    calls[k].reason \in {"proactive_refresh_failed", "reactive_refresh_failed"}
      => GetCharacterAuth(characters, calls[k].char) = NoAuth

\* ====================================================================
\* The dispatch queue against the clock (esi-client.ts 86-111)
\* ====================================================================

\* ESI_CONFIG.RATE_LIMIT.DEFAULT, requests per second.
RATE_LIMIT_DEFAULT == 150

\* Milliseconds per second, the 1000 of the timer delay.
WINDOW_MS == 1000

\* The delay of the timer, 1000 / ESI_CONFIG.RATE_LIMIT.DEFAULT: Node's
\* setTimeout truncates the delay to an integer number of milliseconds.
TimerDelay == WINDOW_MS \div RATE_LIMIT_DEFAULT

InitQueue ==
  /\ qnow = 0
  /\ timerDue = 0
  /\ qseq = 0
  /\ qidle = 0
  /\ windowStart \in 0..MaxWindowStart
  /\ inWindow = 0
  /\ qreleased = 0

\* The count of releases inside the observed window after processing result r
\* at the present time.
CountRelease(r) ==
  IF r.next # 0 /\ qnow >= windowStart /\ qnow < windowStart + WINDOW_MS
    THEN inWindow + 1
    ELSE inWindow

\* A request enters the request interceptor: addToRateLimitQueue pushes its
\* resolver and calls processRateLimitQueue.
QueueRequest ==
  /\ Len(rateLimitQueue) < MaxWaiting
  /\ LET r == ProcessRateLimitQueue(Append(rateLimitQueue, qseq + 1), isProcessingQueue) IN
       /\ rateLimitQueue' = r.queue
       /\ isProcessingQueue' = r.busy
       /\ timerArmed' = (timerArmed \/ r.arm)
       /\ timerDue' = IF r.arm THEN qnow + TimerDelay ELSE timerDue
       /\ inWindow' = CountRelease(r)
       /\ qreleased' = IF r.next # 0 THEN r.next ELSE qreleased
  /\ qseq' = qseq + 1
  /\ UNCHANGED <<qnow, qidle, windowStart>>
  /\ UNCHANGED notQueue

TimerKeepsFlag(busy) == busy

\* The timer callback's this.isProcessingQueue = false.
TimerClearsFlag(busy) == FALSE

\* The timer of processRateLimitQueue expires: the flag is cleared and
\* processRateLimitQueue runs again.
QueueTimerExpires ==
  /\ timerArmed
  /\ qnow >= timerDue
  /\ LET r == ProcessRateLimitQueue(rateLimitQueue, TimerClearsFlag(isProcessingQueue)) IN
       /\ rateLimitQueue' = r.queue
       /\ isProcessingQueue' = r.busy
       /\ timerArmed' = r.arm
       /\ timerDue' = IF r.arm THEN qnow + TimerDelay ELSE timerDue
       /\ inWindow' = CountRelease(r)
       /\ qreleased' = IF r.next # 0 THEN r.next ELSE qreleased
  /\ UNCHANGED <<qnow, qseq, qidle, windowStart>>
  /\ UNCHANGED notQueue

\* One millisecond passes: a due timer expires first, and the queue sits idle
\* (no timer pending) for MaxIdleMs milliseconds at most.
QueueTick ==
  /\ qnow < windowStart + WINDOW_MS
  /\ IF timerArmed THEN qnow < timerDue ELSE qidle < MaxIdleMs
  /\ qnow' = qnow + 1
  /\ qidle' = IF timerArmed THEN qidle ELSE qidle + 1
  /\ UNCHANGED <<queueCoreVars, timerDue, qseq, windowStart, inWindow, qreleased>>
  /\ UNCHANGED notQueue

NextQueue ==
  \/ QueueRequest
  \/ QueueTimerExpires
  \/ QueueTick

\* ---------------------------------------------------------------- C6
\* C6: in any 1-second window the queue releases at most
\* ESI_CONFIG.RATE_LIMIT.DEFAULT (150) requests for dispatch.
C6_AtMostDefaultPerSecond == inWindow <= RATE_LIMIT_DEFAULT

\* ====================================================================
\* Record synchronization: EnhancedESIClient (esi-client.ts 308-420),
\* DatabaseManager.syncCharacterAssets, AssetService (unnamed/part_004)
\* ====================================================================

SyncChars == 1..NSyncChars
SyncFlows == 1..NSyncFlows
ItemIds == 1..NItems

\* A record of the remote listing (EVEAsset), reduced to its key.
ESIAssets == [item_id : ItemIds]

\* What the remote listing can answer: item ids are unique within a listing.
Listings == {S \in SUBSET ESIAssets : \A a, b \in S : a.item_id = b.item_id => a = b}

\* The row storeCharacterAssets builds from a listed record (assets.map).
AssetRecord(asset, now) ==
  [item_id |-> asset.item_id, syncedAt |-> now]

\* The listed records a set of rows stands for.
Records(rows) == {[item_id |-> r.item_id] : r \in rows}

\* The cache an earlier synchronization left behind at the initial time. An
\* identity without rows was never synchronized; identity 1 may instead have
\* been synchronized at the initial time with an empty listing.
OldListing == {[item_id |-> i] : i \in ItemIds}

IdleFlow == [pc |-> "idle", char |-> 0, force |-> FALSE, guarded |-> FALSE,
             fetched |-> {}, pending |-> {}, syncedAt |-> 0, result |-> {},
             before |-> <<>>, listingFailed |-> FALSE, hadCache |-> FALSE,
             cachedAtFailure |-> {}]

InitSync ==
  /\ snow = SyncTickSec
  /\ assetsDb \in [SyncChars -> {{}, {AssetRecord(a, SyncTickSec) : a \in OldListing}}]
  /\ lastSync \in [SyncChars -> {0, SyncTickSec}]
  /\ \A c \in SyncChars :
       /\ assetsDb[c] # {} => lastSync[c] = SyncTickSec
       /\ (assetsDb[c] = {} /\ c # 1) => lastSync[c] = 0
  /\ dbTurn = 0
  /\ flows = [f \in SyncFlows |-> IdleFlow]

\* AssetService.getCharacterAssets: the rows of one identity.
GetCharacterAssets(db, characterId) == db[characterId]

\* lastSyncTime of AssetService.getCharacterAssetStats: null (0 here) without
\* rows, otherwise the largest syncedAt.
LastSyncTime(db, characterId) ==
  LET rows == GetCharacterAssets(db, characterId) IN
    IF rows = {} THEN 0
    ELSE CHOOSE t \in {r.syncedAt : r \in rows} : \A r \in rows : r.syncedAt <= t

\* The age in seconds beyond which the cache is refreshed.
CACHE_MAX_AGE_SEC == 1800

\* cacheAge > 1800, where cacheAge is Infinity when lastSyncTime is falsy.
CacheStale(db, characterId, now) ==
  LET lastSyncTime == LastSyncTime(db, characterId) IN
    IF lastSyncTime = 0 THEN TRUE ELSE now - lastSyncTime > CACHE_MAX_AGE_SEC

\* getCharacterAssetsWithFallback up to its first network call: with
\* forceRefresh, or with a stale cache, the remote listing is requested (inside
\* a try/catch of its own only in the second case); a fresh cache is returned.
GetCharacterAssetsWithFallback(f) ==
  /\ flows[f].pc = "idle"
  /\ dbTurn = 0
  /\ \E c \in SyncChars, forceRefresh \in BOOLEAN :
       IF forceRefresh
         THEN flows' = [flows EXCEPT ![f] = [@ EXCEPT !.pc = "listing", !.char = c,
                          !.force = TRUE, !.guarded = FALSE]]
         ELSE IF CacheStale(assetsDb, c, snow)
           THEN flows' = [flows EXCEPT ![f] = [@ EXCEPT !.pc = "listing", !.char = c,
                            !.guarded = TRUE]]
           ELSE flows' = [flows EXCEPT ![f] = [@ EXCEPT !.pc = "done", !.char = c,
                            !.result = Records(GetCharacterAssets(assetsDb, c))]]
  /\ UNCHANGED <<assetsDb, lastSync, snow, dbTurn>>
  /\ UNCHANGED notSync

\* The remote listing fails (super.getCharacterAssets rejects, and with it
\* getAndSyncCharacterAssets): the guarded call swallows the error and the cache
\* is read and returned, the unguarded call lets it propagate.
ListingFails(f) ==
  /\ flows[f].pc = "listing"
  /\ dbTurn = 0
  /\ LET cached == Records(GetCharacterAssets(assetsDb, flows[f].char)) IN
       flows' = [flows EXCEPT ![f] = [@ EXCEPT
                   !.listingFailed = TRUE,
                   !.hadCache = (cached # {}),
                   !.cachedAtFailure = cached,
                   !.pc = IF flows[f].guarded THEN "done" ELSE "failed",
                   !.result = IF flows[f].guarded THEN cached ELSE {}]]
  /\ UNCHANGED <<assetsDb, lastSync, snow, dbTurn>>
  /\ UNCHANGED notSync

YieldsEventLoop(f) == 0

\* The awaits of syncCharacterAssets wait on database calls only, which
\* settle without leaving the running task: no continuation of another flow
\* runs before the synchronization has returned.
KeepsEventLoop(f) == f

\* The remote listing answers: syncCharacterAssets starts, storeCharacterAssets
\* reads the clock. The database calls that follow are synchronous (sql.js), so
\* the flow keeps the event loop until it returns.
ListingAnswers(f) ==
  /\ flows[f].pc = "listing"
  /\ dbTurn = 0
  /\ \E assetList \in Listings :
       flows' = [flows EXCEPT ![f] = [@ EXCEPT !.pc = "store_delete",
                   !.fetched = assetList, !.syncedAt = snow, !.before = assetsDb]]
  /\ dbTurn' = KeepsEventLoop(f)
  /\ UNCHANGED <<assetsDb, lastSync, snow>>
  /\ UNCHANGED notSync

DeleteNothing(db, characterId) == db

\* delete from character_assets where character_id = characterId.
DeleteCharacterAssets(db, characterId) == [db EXCEPT ![characterId] = {}]

\* storeCharacterAssets: the delete, then the rows are prepared.
StoreDelete(f) ==
  /\ flows[f].pc = "store_delete"
  /\ assetsDb' = DeleteCharacterAssets(assetsDb, flows[f].char)
  /\ flows' = [flows EXCEPT ![f] = [@ EXCEPT
                 !.pending = {AssetRecord(a, flows[f].syncedAt) : a \in flows[f].fetched},
                 !.pc = IF flows[f].fetched = {} THEN "update_last_sync" ELSE "store_insert"]]
  /\ UNCHANGED <<lastSync, snow, dbTurn>>
  /\ UNCHANGED notSync

\* assetRecords.slice(i, i + batchSize): the next rows, by ascending item id.
NextBatch(pending) ==
  {r \in pending : Cardinality({q \in pending : q.item_id < r.item_id}) < BatchRecords}

\* storeCharacterAssets: one batch insert.
StoreInsertBatch(f) ==
  /\ flows[f].pc = "store_insert"
  /\ LET batch == NextBatch(flows[f].pending) IN
       /\ assetsDb' = [assetsDb EXCEPT ![flows[f].char] = @ \cup batch]
       /\ flows' = [flows EXCEPT ![f] = [@ EXCEPT
                      !.pending = @ \ batch,
                      !.pc = IF flows[f].pending \ batch = {}
                               THEN "update_last_sync" ELSE "store_insert"]]
  /\ UNCHANGED <<lastSync, snow, dbTurn>>
  /\ UNCHANGED notSync

\* syncCharacterAssets: characters.updateLastSync, which ends the
\* synchronization.
UpdateLastSync(f) ==
  /\ flows[f].pc = "update_last_sync"
  /\ lastSync' = [lastSync EXCEPT ![flows[f].char] = snow]
  /\ flows' = [flows EXCEPT ![f] = [@ EXCEPT !.pc = "synced"]]
  /\ UNCHANGED <<assetsDb, snow, dbTurn>>
  /\ UNCHANGED notSync

\* getCharacterAssetsWithFallback after the synchronization: the cache is read
\* and returned.
ReturnCachedData(f) ==
  /\ flows[f].pc = "synced"
  /\ flows' = [flows EXCEPT ![f] = [@ EXCEPT !.pc = "done",
                 !.result = Records(GetCharacterAssets(assetsDb, flows[f].char))]]
  /\ dbTurn' = 0
  /\ UNCHANGED <<assetsDb, lastSync, snow>>
  /\ UNCHANGED notSync

\* Time passes between event-loop tasks.
SyncTick ==
  /\ dbTurn = 0
  /\ snow < SyncTickSec * (MaxSyncTicks + 1)
  /\ snow' = snow + SyncTickSec
  /\ UNCHANGED <<assetsDb, lastSync, dbTurn, flows>>
  /\ UNCHANGED notSync

NextSync ==
  \/ \E f \in SyncFlows : GetCharacterAssetsWithFallback(f)
  \/ \E f \in SyncFlows : ListingFails(f)
  \/ \E f \in SyncFlows : ListingAnswers(f)
  \/ \E f \in SyncFlows : StoreDelete(f)
  \/ \E f \in SyncFlows : StoreInsertBatch(f)
  \/ \E f \in SyncFlows : UpdateLastSync(f)
  \/ \E f \in SyncFlows : ReturnCachedData(f)
  \/ SyncTick

\* ---------------------------------------------------------------- C7
\* C7: when the remote listing has failed during getCharacterAssetsWithFallback
\* and the identity had cached records, the call returns those cached records
\* and does not fail, with forceRefresh = true as with a stale cache.
C7_ListingFailureFallsBackToCache ==
  \A f \in SyncFlows :
    (flows[f].listingFailed /\ flows[f].hadCache)
      => /\ flows[f].pc = "done"
         /\ flows[f].result = flows[f].cachedAtFailure

\* ---------------------------------------------------------------- C8
\* C8: when the remote listing has failed during getCharacterAssetsWithFallback
\* and the identity had no cached records, the call fails and returns no result.
C8_ListingFailureWithoutCacheFails ==
  \A f \in SyncFlows :
    (flows[f].listingFailed /\ ~flows[f].hadCache) => flows[f].pc = "failed"

\* ---------------------------------------------------------------- C9
\* C9: right after a successful synchronization of an identity its cached
\* records are exactly those of the remote listing, the cached rows of every
\* other identity are what they were before the synchronization, and the call
\* returns the listed records.
C9_SyncReplacesWholesale ==
  \A f \in SyncFlows :
    /\ flows[f].pc = "synced"
         => /\ Records(GetCharacterAssets(assetsDb, flows[f].char)) = flows[f].fetched
            /\ \A r \in GetCharacterAssets(assetsDb, flows[f].char) :
                 r.syncedAt = flows[f].syncedAt
            /\ \A c \in SyncChars \ {flows[f].char} : assetsDb[c] = flows[f].before[c]
    /\ (flows[f].pc = "done" /\ flows[f].syncedAt # 0)
         => flows[f].result = flows[f].fetched

\* A synchronization has completed over a cache holding a record that the
\* listing no longer has, next to another identity with a cache of its own.
C9_Witness ==
  \E f \in SyncFlows :
    /\ flows[f].pc = "synced"
    /\ Records(flows[f].before[flows[f].char]) \ flows[f].fetched # {}
    /\ flows[f].fetched # {}
    /\ \E c \in SyncChars \ {flows[f].char} : assetsDb[c] # {}

\* ====================================================================
\* Inventory.groupAssetsByLocation (Inventory.tsx 209-264)
\* ====================================================================

AssetIds == 1..MaxAssets

\* The id of a location that is no record of the set (a station).
StationId == MaxAssets + 1

LocationIds == AssetIds \cup {StationId}

LocationFlags == {"Hangar", "Cargo"}

\* The location id of the record with item id id, 0 when there is none.
LocationOf(s, id) ==
  IF \E j \in 1..Len(s) : s[j].item_id = id
    THEN s[CHOOSE j \in 1..Len(s) : s[j].item_id = id].location_id
    ELSE 0

\* Following location ids from cur for n steps at most arrives at start.
RECURSIVE Contains(_, _, _, _)
Contains(s, start, cur, n) ==
  IF n = 0 THEN FALSE
  ELSE LET up == LocationOf(s, cur) IN
         up = start \/ (up # 0 /\ Contains(s, start, up, n - 1))

\* The record at index i names itself as its location.
SelfLocated(s, i) == s[i].location_id = s[i].item_id

\* Containment is a forest: no record is inside itself through other records.
\* A record that names itself as its location is the one irregular input the
\* grouping is written for (parentAsset !== asset).
Acyclic(s) ==
  \A i \in 1..Len(s) :
    ~SelfLocated(s, i) => ~Contains(s, s[i].item_id, s[i].item_id, Len(s))

\* A group key: `${locationId}-${locationFlag}` when ship is 0,
\* `${parentLocationId}-${parentLocationFlag}-ship-${parentItemId}` otherwise.
GroupKeys == [loc : LocationIds, flag : LocationFlags, ship : {0} \cup AssetIds]

InitGroup ==
  /\ \E n \in 0..MaxAssets :
       \E ids \in [1..n -> AssetIds] :
         /\ \A i, j \in 1..n : ids[i] = ids[j] => i = j
         /\ \E locs \in [1..n -> LocationIds], flags \in [1..n -> LocationFlags] :
              /\ assets = [i \in 1..n |-> [item_id |-> ids[i], location_id |-> locs[i],
                                           location_flag |-> flags[i]]]
              /\ Acyclic(assets)
  /\ gidx = 1
  /\ grouped = [k \in GroupKeys |-> <<>>]
  /\ processedAssets = {}

\* assetMap.get(id): the index of the last record with that item id, 0 when
\* there is none.
AssetMapGet(s, id) ==
  IF \E j \in 1..Len(s) : s[j].item_id = id
    THEN CHOOSE j \in 1..Len(s) :
           s[j].item_id = id /\ \A m \in 1..Len(s) : s[m].item_id = id => m <= j
    ELSE 0

LocationKey(asset) ==
  [loc |-> asset.location_id, flag |-> asset.location_flag, ship |-> 0]

ParentKey(parentAsset) ==
  [loc |-> parentAsset.location_id, flag |-> parentAsset.location_flag,
   ship |-> parentAsset.item_id]

\* forEach body: the record is already marked as processed and is skipped.
GroupSkipProcessed ==
  /\ gidx <= Len(assets)
  /\ assets[gidx].item_id \in processedAssets
  /\ gidx' = gidx + 1
  /\ UNCHANGED <<assets, grouped, processedAssets>>
  /\ UNCHANGED notGroup

\* forEach body: the location id of the record is the item id of another
\* record; it is pushed to the group of that parent, created with the parent
\* first when missing.
GroupUnderParent ==
  /\ gidx <= Len(assets)
  /\ assets[gidx].item_id \notin processedAssets
  /\ LET asset == assets[gidx]
         p == AssetMapGet(assets, asset.location_id) IN
       /\ p # 0 /\ p # gidx
       /\ LET parentKey == ParentKey(assets[p])
              created == grouped[parentKey] = <<>> IN
            /\ grouped' = [grouped EXCEPT ![parentKey] =
                 Append(IF created THEN <<assets[p].item_id>> ELSE @, asset.item_id)]
            /\ processedAssets' = processedAssets \cup {asset.item_id}
                 \cup (IF created THEN {assets[p].item_id} ELSE {})
  /\ gidx' = gidx + 1
  /\ UNCHANGED assets
  /\ UNCHANGED notGroup

\* forEach body: a regular record, pushed to the group of its location.
GroupByLocation ==
  /\ gidx <= Len(assets)
  /\ assets[gidx].item_id \notin processedAssets
  /\ LET asset == assets[gidx]
         p == AssetMapGet(assets, asset.location_id) IN
       /\ p = 0 \/ p = gidx
       /\ grouped' = [grouped EXCEPT ![LocationKey(asset)] = Append(@, asset.item_id)]
       /\ processedAssets' = processedAssets \cup {asset.item_id}
  /\ gidx' = gidx + 1
  /\ UNCHANGED assets
  /\ UNCHANGED notGroup

NextGroup ==
  \/ GroupSkipProcessed
  \/ GroupUnderParent
  \/ GroupByLocation

\* groupAssetsByLocation has returned.
Grouped == gidx > Len(assets)

InGroup(id, key) == \E m \in 1..Len(grouped[key]) : grouped[key][m] = id

\* ---------------------------------------------------------------- C10
\* C10: once groupAssetsByLocation has returned, every record A whose
\* location_id is the item_id of another record B of the set is in the group
\* headed by B and in no plain location group, in whatever order the records
\* came and whether or not A is the parent of other records.
C10_ChildGroupedUnderParent ==
  Grouped =>
    \A i, j \in 1..Len(assets) :
      (i # j /\ assets[i].location_id = assets[j].item_id)
        => /\ grouped[ParentKey(assets[j])] # <<>>
           /\ Head(grouped[ParentKey(assets[j])]) = assets[j].item_id
           /\ InGroup(assets[i].item_id, ParentKey(assets[j]))
           /\ \A k \in GroupKeys : k.ship = 0 => ~InGroup(assets[i].item_id, k)

\* ====================================================================
\* The callback listener (callback-server.ts) under the authorization flow
\* ====================================================================

\* private port: number = 8080
PREFERRED_PORT == 8080

\* The delay of the timer that closes the server after a callback.
GRACE_MS == 6000

\* The delay of the timer that gives up waiting for a callback.
TIMEOUT_MS == 300000

Ports == PREFERRED_PORT..(PREFERRED_PORT + MaxOccupied + NAttempts)

NoSocket == [st |-> "none", port |-> 0]

InitListen ==
  /\ server = 0
  /\ port = PREFERRED_PORT
  /\ sock = [a \in Attempts |-> NoSocket]
  /\ timeoutAt = [a \in Attempts |-> 0]
  /\ graceAt = [a \in Attempts |-> 0]
  /\ redirectPort = [a \in Attempts |-> 0]
  /\ occupied \in SUBSET (PREFERRED_PORT..(PREFERRED_PORT + MaxOccupied - 1))
  /\ lnow = 0
  /\ lwaits = 0

\* A listen call is in progress. It completes within the same instant: nothing
\* else happens to the listener meanwhile.
Binding == \E a \in Attempts : sock[a].st = "binding"

\* The ports that cannot be bound: those of other programs and those of the
\* servers that are listening.
PortsInUse == occupied \cup {sock[a].port : a \in {b \in Attempts : sock[b].st = "listening"}}

\* The times at which a pending timer fires.
Deadlines ==
  {timeoutAt[a] : a \in {b \in Attempts : timeoutAt[b] # 0}}
    \cup {graceAt[a] : a \in {b \in Attempts : graceAt[b] # 0}}

\* stopServer on server reference srv and sockets sk: the current server, if
\* any, is closed and the reference set to null.
StopServerSock(srv, sk) ==
  IF srv = 0 THEN sk ELSE [sk EXCEPT ![srv] = [@ EXCEPT !.st = "closed"]]

\* getCallbackUrl: the port of `http://localhost:${this.port}/auth/callback`.
GetCallbackUrlPort(p) == p

\* handleInitiateAuth calls initiateAuth: the session fields are set,
\* startServer creates a server, stores it in this.server, calls listen on
\* this.port and arms the 5-minute timer; getCallbackUrl is then read for the
\* redirect_uri of the authorization URL.
StartServer(a) ==
  /\ ~Binding
  /\ InitiateAuthCore(a)
  /\ server' = a
  /\ sock' = [sock EXCEPT ![a] = [st |-> "binding", port |-> port]]
  /\ timeoutAt' = [timeoutAt EXCEPT ![a] = lnow + TIMEOUT_MS]
  /\ redirectPort' = [redirectPort EXCEPT ![a] = GetCallbackUrlPort(port)]
  /\ UNCHANGED <<port, graceAt, occupied, lnow, lwaits>>
  /\ UNCHANGED notListen

\* The listen call succeeds: the port is free.
Listening(a) ==
  /\ sock[a].st = "binding"
  /\ sock[a].port \notin PortsInUse
  /\ sock' = [sock EXCEPT ![a] = [@ EXCEPT !.st = "listening"]]
  /\ UNCHANGED <<server, port, timeoutAt, graceAt, redirectPort, occupied, lnow, lwaits>>
  /\ UNCHANGED authVars
  /\ UNCHANGED notListen

\* The listen call fails with EADDRINUSE: the error handler increments
\* this.port and listens again.
AddressInUse(a) ==
  /\ sock[a].st = "binding"
  /\ sock[a].port \in PortsInUse
  /\ port' = port + 1
  /\ sock' = [sock EXCEPT ![a] = [@ EXCEPT !.port = port + 1]]
  /\ UNCHANGED <<server, timeoutAt, graceAt, redirectPort, occupied, lnow, lwaits>>
  /\ UNCHANGED authVars
  /\ UNCHANGED notListen

\* The browser requests /auth/callback on a listening server, once per server:
\* the promise is resolved with the URL, the 6-second timer armed, and
\* handleInitiateAuth hands the URL to handleCallback.
CallbackHit(a) ==
  /\ ~Binding
  /\ sock[a].st = "listening"
  /\ graceAt[a] = 0
  /\ CallbackReceivedCore(a)
  /\ graceAt' = [graceAt EXCEPT ![a] = lnow + GRACE_MS]
  /\ UNCHANGED <<server, port, sock, timeoutAt, redirectPort, occupied, lnow, lwaits>>
  /\ UNCHANGED notListen

\* The 6-second timer fires: stopServer.
GraceTimerFires(a) ==
  /\ ~Binding
  /\ graceAt[a] # 0
  /\ lnow = graceAt[a]
  /\ sock' = StopServerSock(server, sock)
  /\ server' = 0
  /\ graceAt' = [graceAt EXCEPT ![a] = 0]
  /\ UNCHANGED <<port, timeoutAt, redirectPort, occupied, lnow, lwaits>>
  /\ UNCHANGED authVars
  /\ UNCHANGED notListen

\* The 5-minute timer fires: stopServer, then reject, which fails the attempt
\* when its promise is still pending.
TimeoutTimerFires(a) ==
  /\ ~Binding
  /\ timeoutAt[a] # 0
  /\ lnow = timeoutAt[a]
  /\ sock' = StopServerSock(server, sock)
  /\ server' = 0
  /\ timeoutAt' = [timeoutAt EXCEPT ![a] = 0]
  /\ IF apc[a] = "awaiting_callback" THEN AuthTimeoutCore(a) ELSE UNCHANGED authVars
  /\ UNCHANGED <<port, graceAt, redirectPort, occupied, lnow, lwaits>>
  /\ UNCHANGED notListen

\* auth:callback, the token endpoint and the verification endpoint, as in the
\* authorization flow.
ListenHandleAuthCallback(a) ==
  /\ ~Binding
  /\ HandleAuthCallbackCore(a)
  /\ UNCHANGED listenVars
  /\ UNCHANGED notListen

ListenTokenResponse(a) ==
  /\ ~Binding
  /\ TokenResponseCore(a)
  /\ UNCHANGED listenVars
  /\ UNCHANGED notListen

ListenVerifyResponse(a) ==
  /\ ~Binding
  /\ VerifyResponseCore(a)
  /\ UNCHANGED listenVars
  /\ UNCHANGED notListen

\* Time passes up to the next timer: a timer fires when it is due.
ListenAdvance ==
  /\ ~Binding
  /\ Deadlines # {}
  /\ \A d \in Deadlines : d > lnow
  /\ lnow' = CHOOSE d \in Deadlines : \A e \in Deadlines : d <= e
  /\ UNCHANGED <<server, port, sock, timeoutAt, graceAt, redirectPort, occupied, lwaits>>
  /\ UNCHANGED authVars
  /\ UNCHANGED notListen

\* Time passes without reaching a timer.
ListenWait ==
  /\ ~Binding
  /\ lwaits < MaxWaits
  /\ \A d \in Deadlines : d > lnow + WaitMs
  /\ lnow' = lnow + WaitMs
  /\ lwaits' = lwaits + 1
  /\ UNCHANGED <<server, port, sock, timeoutAt, graceAt, redirectPort, occupied>>
  /\ UNCHANGED authVars
  /\ UNCHANGED notListen

NextListen ==
  \/ \E a \in Attempts : StartServer(a)
  \/ \E a \in Attempts : Listening(a)
  \/ \E a \in Attempts : AddressInUse(a)
  \/ \E a \in Attempts : CallbackHit(a)
  \/ \E a \in Attempts : GraceTimerFires(a)
  \/ \E a \in Attempts : TimeoutTimerFires(a)
  \/ \E a \in Attempts : ListenHandleAuthCallback(a)
  \/ \E a \in Attempts : ListenTokenResponse(a)
  \/ \E a \in Attempts : ListenVerifyResponse(a)
  \/ ListenAdvance
  \/ ListenWait

\* ---------------------------------------------------------------- C11
\* C11: in the step in which an authentication attempt fails with a timeout, a
\* state mismatch, a provider error parameter or a token-exchange failure, the
\* listener of the attempt is no longer listening and the code verifier and
\* the anti-forgery state are cleared.
C11_FailureTearsDownAndClears ==
  [][\A a \in Attempts :
       (apc[a] # "failed" /\ apc'[a] = "failed"
          /\ areason'[a] \in {"timeout", "csrf_mismatch", "provider_denied",
                              "exchange_failed"})
         => /\ sock'[a].st \notin {"binding", "listening"}
            /\ codeVerifier' = 0
            /\ authState' = 0]_vars

\* ---------------------------------------------------------------- C12
\* C12: no listener socket is left behind: once no timer is pending, every
\* socket that startServer opened is closed, whatever the sequence of attempts.
C12_EverySocketClosed ==
  (Deadlines = {} /\ ~Binding) => \A a \in Attempts : sock[a].st # "listening"

\* ---------------------------------------------------------------- C13
\* C13: the port in the redirect_uri of the authorization URL of an attempt is
\* the port its listener is bound to, also when port 8080 was occupied and the
\* listener moved to a higher port.
C13_RedirectPortIsBoundPort ==
  \A a \in Attempts : sock[a].st = "listening" => redirectPort[a] = sock[a].port

\* ---------------------------------------------------------------- C17
\* C17: the queue releases requests in the order they entered it: with the
\* requests numbered by arrival, every release hands out the number that follows
\* the one released before it.
C17_ReleasedInArrivalOrder ==
  [][qreleased' # qreleased => qreleased' = qreleased + 1]_vars

\* A request is released by the timer while a younger one is still waiting,
\* after at least one earlier release.
C17_Witness ==
  /\ qreleased >= 2
  /\ Len(rateLimitQueue) >= 1
  /\ isProcessingQueue

\* ====================================================================
\* Concurrent token refreshes (esi-client.ts 150-169, 48-66, 121-129)
\* ====================================================================
NRefreshFlows == 2    \* refreshCharacterToken calls

RFlows == 1..NRefreshFlows

IdleRefresh == [pc |-> "idle", char |-> 0, kind |-> "none", refreshTok |-> 0, pair |-> 0]

\* The credentials of InitClient, read at time 0 (still valid) or one clock step
\* later (past their expiry margin).
InitRefresh ==
  /\ characters = [c \in Chars |->
       [access |-> Encrypt(c), refresh |-> Encrypt(c), expires |-> ExpiresInSec * 1000]]
  /\ last_selected_character = 1
  /\ tokensIssued = NChars
  /\ cnow \in {0, TickMs}
  /\ rateLimitQueue = <<>>
  /\ isProcessingQueue = FALSE
  /\ timerArmed = FALSE
  /\ calls = [k \in Calls |-> IdleCall]
  /\ rflows = [f \in RFlows |-> IdleRefresh]

notRefresh == <<authVars, last_selected_character, cnow, queueCoreVars, calls, queueVars,
                syncVars, groupVars, listenVars, backoffVars, dbVars, moreVars>>

\* A caller enters refreshCharacterToken for identity c: makeAuthenticatedRequest
\* when isTokenExpired holds (proactive), the response interceptor on a 401
\* (reactive). The stored refresh token is read and the exchange is sent.
RefreshStart(f, c, kind) ==
  /\ rflows[f].pc = "idle"
  /\ kind = "proactive" => IsTokenExpired(characters, c, cnow)
  /\ GetCharacterAuth(characters, c) # NoAuth
  /\ rflows' = [rflows EXCEPT ![f] =
       [pc |-> "exchanging", char |-> c, kind |-> kind,
        refreshTok |-> GetCharacterAuth(characters, c).refresh, pair |-> 0]]
  /\ UNCHANGED <<characters, tokensIssued>>
  /\ UNCHANGED notRefresh

\* The token endpoint answers the exchange of flow f with the next token pair.
RefreshIssued(f) ==
  /\ rflows[f].pc = "exchanging"
  /\ tokensIssued' = tokensIssued + 1
  /\ rflows' = [rflows EXCEPT ![f] = [@ EXCEPT !.pc = "answered", !.pair = tokensIssued + 1]]
  /\ UNCHANGED characters
  /\ UNCHANGED notRefresh

\* The token endpoint rejects the exchange: refreshCharacterToken rethrows.
RefreshRejected(f) ==
  /\ rflows[f].pc = "exchanging"
  /\ rflows' = [rflows EXCEPT ![f] = [@ EXCEPT !.pc = "failed"]]
  /\ UNCHANGED <<characters, tokensIssued>>
  /\ UNCHANGED notRefresh

\* The answer reaches the client: updateCharacterAuth stores the pair with
\* token_expires = Date.now() + expires_in * 1000.
RefreshStored(f) ==
  /\ rflows[f].pc = "answered"
  /\ characters' = UpdateCharacterAuth(characters, rflows[f].char, rflows[f].pair,
                                       rflows[f].pair, cnow + ExpiresInSec * 1000)
  /\ rflows' = [rflows EXCEPT ![f] = [@ EXCEPT !.pc = "done"]]
  /\ UNCHANGED tokensIssued
  /\ UNCHANGED notRefresh

NextRefresh ==
  \/ \E f \in RFlows, c \in Chars, kind \in {"proactive", "reactive"} : RefreshStart(f, c, kind)
  \/ \E f \in RFlows : RefreshIssued(f)
  \/ \E f \in RFlows : RefreshRejected(f)
  \/ \E f \in RFlows : RefreshStored(f)

\* The refresh exchanges of identity c that are in flight.
ExchangesInFlight(c) ==
  {f \in RFlows : rflows[f].char = c /\ rflows[f].pc \in {"exchanging", "answered"}}

\* The token pairs issued for identity c.
PairsIssued(c) == {rflows[f].pair : f \in {g \in RFlows : rflows[g].char = c /\ rflows[g].pair # 0}}

\* ---------------------------------------------------------------- C14
\* C14: the token refreshes of one identity are serialized: at most one refresh
\* exchange of an identity is in flight at any time, and once no exchange is in
\* flight the store holds the token pair that was issued last for it.
C14_RefreshesSerialized ==
  \A c \in Chars :
    /\ Cardinality(ExchangesInFlight(c)) <= 1
    /\ (ExchangesInFlight(c) = {} /\ PairsIssued(c) # {})
         => \A p \in PairsIssued(c) : p <= GetCharacterAuth(characters, c).access

\* ====================================================================
\* The 420/429 branch of the response interceptor (esi-client.ts 69-76)
\* ====================================================================
MaxBackoffs == 2      \* 420/429 answers the provider gives one logical call
MaxHeaderLen == 1     \* characters of a retry-after header
MaxDigit == 1         \* largest digit a retry-after header is written with

\* The default the interceptor falls back to, the string '60'.
DEFAULT_RETRY_AFTER == <<6, 0>>

\* Milliseconds per second, the 1000 of the setTimeout delay.
MS_PER_SECOND == 1000

\* retry-after headers: decimal digit strings; the empty one stands for an
\* absent (or empty) header, which is falsy.
RetryAfterHeaders ==
  UNION {[1..n -> 0..MaxDigit] : n \in 0..MaxHeaderLen}

\* parseInt(s, 10) of a non-empty string of decimal digits.
RECURSIVE ParseInt(_)
ParseInt(s) ==
  IF Len(s) = 1 THEN s[1]
  ELSE 10 * ParseInt(SubSeq(s, 1, Len(s) - 1)) + s[Len(s)]

\* An interceptor that re-dispatches at once.
NoDelayMs(header) == 0

\* parseInt(headers['retry-after'] || '60', 10) * 1000, the delay of the timer.
RetryDelayMs(header) ==
  ParseInt(IF header = <<>> THEN DEFAULT_RETRY_AFTER ELSE header) * MS_PER_SECOND

BackoffStatuses == {200, 420, 429, 500}

IdleBackoff == [pc |-> "idle", status |-> 0, header |-> <<>>, limitedAt |-> 0,
                waitUntil |-> 0, nRateLimited |-> 0, nDispatched |-> 0]

InitBackoff ==
  /\ bnow = 0
  /\ bcall = IdleBackoff

notBackoff == <<authVars, storeVars, tokensIssued, cnow, calls, qnow, qseq, qidle,
                windowStart, inWindow, qreleased, syncVars, groupVars, listenVars,
                refreshVars, dbVars, moreVars>>

\* The request passes the request interceptor: addToRateLimitQueue pushes it and
\* processRateLimitQueue releases it unless the queue is busy.
BackoffEnqueue ==
  LET r == ProcessRateLimitQueue(Append(rateLimitQueue, 1), isProcessingQueue) IN
    /\ rateLimitQueue' = r.queue
    /\ isProcessingQueue' = r.busy
    /\ timerArmed' = (timerArmed \/ r.arm)
    /\ timerDue' = IF r.arm THEN bnow + TimerDelay ELSE timerDue
    /\ bcall' = [bcall EXCEPT
         !.pc = IF r.next # 0 THEN "in_flight" ELSE "queued",
         !.nDispatched = IF r.next # 0 THEN @ + 1 ELSE @]

\* The caller issues the request.
BackoffRequest ==
  /\ bcall.pc = "idle"
  /\ BackoffEnqueue
  /\ UNCHANGED bnow
  /\ UNCHANGED notBackoff

\* The timer of processRateLimitQueue expires.
BackoffQueueTimer ==
  /\ timerArmed
  /\ bnow >= timerDue
  /\ LET r == ProcessRateLimitQueue(rateLimitQueue, FALSE) IN
       /\ rateLimitQueue' = r.queue
       /\ isProcessingQueue' = r.busy
       /\ timerArmed' = r.arm
       /\ timerDue' = IF r.arm THEN bnow + TimerDelay ELSE timerDue
       /\ bcall' = IF r.next # 0
                     THEN [bcall EXCEPT !.pc = "in_flight", !.nDispatched = @ + 1]
                     ELSE bcall
  /\ UNCHANGED bnow
  /\ UNCHANGED notBackoff

\* The provider answers the dispatched request. On 420 or 429 the interceptor
\* arms a timer of retry-after seconds; 200 resolves the call and any other
\* error rejects it.
BackoffAnswer(status, header) ==
  /\ bcall.pc = "in_flight"
  /\ status \in {420, 429} => bcall.nRateLimited < MaxBackoffs
  /\ bcall' = IF status \in {420, 429}
       THEN [bcall EXCEPT !.pc = "waiting", !.status = status, !.header = header,
                          !.limitedAt = bnow,
                          !.waitUntil = bnow + RetryDelayMs(header),
                          !.nRateLimited = @ + 1]
       ELSE [bcall EXCEPT !.pc = IF status = 200 THEN "done" ELSE "failed",
                          !.status = status, !.header = header]
  /\ UNCHANGED <<bnow, queueCoreVars, timerDue>>
  /\ UNCHANGED notBackoff

\* The timer of the interceptor fires: this.client(originalRequest) sends the
\* same request through the request interceptor again.
BackoffTimerFires ==
  /\ bcall.pc = "waiting"
  /\ bnow >= bcall.waitUntil
  /\ BackoffEnqueue
  /\ UNCHANGED bnow
  /\ UNCHANGED notBackoff

\* The timers that are pending.
BackoffDeadlines ==
  (IF timerArmed THEN {timerDue} ELSE {}) \cup
  (IF bcall.pc = "waiting" THEN {bcall.waitUntil} ELSE {})

\* Time passes up to the next timer that is pending.
BackoffAdvance ==
  /\ BackoffDeadlines # {}
  /\ \A d \in BackoffDeadlines : bnow < d
  /\ bnow' = CHOOSE d \in BackoffDeadlines : \A e \in BackoffDeadlines : d <= e
  /\ UNCHANGED <<bcall, queueCoreVars, timerDue>>
  /\ UNCHANGED notBackoff

NextBackoff ==
  \/ BackoffRequest
  \/ BackoffQueueTimer
  \/ \E status \in BackoffStatuses, header \in RetryAfterHeaders : BackoffAnswer(status, header)
  \/ BackoffTimerFires
  \/ BackoffAdvance

\* ---------------------------------------------------------------- C15
\* C15: a 420 or 429 answer is never returned to the caller as an error: the
\* client waits the number of seconds the retry-after header states (60 when
\* the header is absent) and only then sends the same request again, however
\* many such answers the call has had before.
C15_RateLimitedWaitsThenRedispatches ==
  [][/\ (bcall.pc = "in_flight" /\ bcall'.pc # "in_flight" /\ bcall'.status \in {420, 429})
          => bcall'.pc = "waiting"
     /\ (bcall.pc = "waiting" /\ bcall'.pc # "waiting")
          => /\ bcall'.pc \in {"queued", "in_flight"}
             /\ bnow' >= bcall.limitedAt
                  + 1000 * (IF bcall.header = <<>> THEN 60 ELSE ParseInt(bcall.header))
     /\ bcall'.pc = "failed" => bcall'.status \notin {420, 429}
     /\ bcall'.nDispatched <= bcall'.nRateLimited + 1
    ]_vars

\* The call is in flight again after MaxBackoffs rate-limited answers, the last
\* of them without a retry-after header and an earlier one with a header.
C15_Witness ==
  /\ bcall.pc = "in_flight"
  /\ bcall.nRateLimited = MaxBackoffs
  /\ bcall.nDispatched = MaxBackoffs + 1
  /\ bcall.header = <<>>
  /\ bnow > 60000

\* ---------------------------------------------------------------- C16
\* C16: a call of getCharacterAssetsWithFallback requests the remote listing
\* exactly when forceRefresh is set or the last successful synchronization of
\* the identity is more than 1800 seconds old (or there was none): after a
\* synchronization at time t a call without forceRefresh before t + 1800 is
\* served from the cache, whatever the synchronization returned.
C16_ListingIffForcedOrStale ==
  [][\A f \in SyncFlows :
       (flows[f].pc = "idle" /\ flows'[f].pc # "idle")
         => ((flows'[f].pc = "listing")
               <=> \/ flows'[f].force
                   \/ lastSync[flows'[f].char] = 0
                   \/ snow - lastSync[flows'[f].char] > 1800)]_vars

\* ---------------------------------------------------------------- C20
\* C20: once groupAssetsByLocation has returned, every record whose location_id
\* is its own item_id is in the plain group of its location and flag, and is
\* nowhere a member of the group it heads itself (neither its own parent nor its
\* own child).
C20_SelfLocatedIsStandalone ==
  Grouped =>
    \A i \in 1..Len(assets) :
      SelfLocated(assets, i)
        => /\ InGroup(assets[i].item_id, LocationKey(assets[i]))
           /\ \A m \in 2..Len(grouped[ParentKey(assets[i])]) :
                grouped[ParentKey(assets[i])][m] # assets[i].item_id

\* ====================================================================
\* The AuthStore and the characters table under the IPC handlers
\* (ipc-handlers.ts 51-114, unnamed/part_005 60-159)
\* ====================================================================
NStoreIds == 2        \* identities the owner can authenticate
MaxStoreAuths == 3    \* successful authentications

StoreIds == 1..NStoreIds

\* No operation on the AuthStore yet.
NoStoreOp == [op |-> "none", id |-> 0, selectedBefore |-> 0]

InitStore ==
  /\ characters = [c \in StoreIds |-> NoAuth]
  /\ last_selected_character = 0
  /\ tokensIssued = 0
  /\ cnow = 0
  /\ rateLimitQueue = <<>>
  /\ isProcessingQueue = FALSE
  /\ timerArmed = FALSE
  /\ calls = [k \in Calls |-> IdleCall]
  /\ dbCharacters = {}
  /\ storeOp = NoStoreOp

notStore == <<authVars, cnow, queueCoreVars, calls, queueVars, syncVars, groupVars,
              listenVars, refreshVars, backoffVars, moreVars>>

\* storeCharacterAuth: the record is written with its tokens encrypted, and the
\* selected-identity pointer is set when it is unset.
StoreCharacterAuth(c, pair) ==
  /\ characters' = [characters EXCEPT ![c] =
       [access |-> Encrypt(pair), refresh |-> Encrypt(pair),
        expires |-> cnow + ExpiresInSec * 1000]]
  /\ last_selected_character' =
       IF last_selected_character = 0 THEN c ELSE last_selected_character

\* auth:initiate succeeds for identity c: storeCharacterAuth, then
\* syncCharacterAuth upserts the row of the characters table.
HandleInitiateAuth(c) ==
  /\ tokensIssued < MaxStoreAuths
  /\ tokensIssued' = tokensIssued + 1
  /\ StoreCharacterAuth(c, tokensIssued + 1)
  /\ dbCharacters' = dbCharacters \cup {c}
  /\ storeOp' = [op |-> "store", id |-> c, selectedBefore |-> last_selected_character]
  /\ UNCHANGED notStore

\* auth:callback succeeds for identity c: storeCharacterAuth only.
HandleAuthCallbackStore(c) ==
  /\ tokensIssued < MaxStoreAuths
  /\ tokensIssued' = tokensIssued + 1
  /\ StoreCharacterAuth(c, tokensIssued + 1)
  /\ storeOp' = [op |-> "store", id |-> c, selectedBefore |-> last_selected_character]
  /\ UNCHANGED dbCharacters
  /\ UNCHANGED notStore

\* auth:set-selected-character: setLastSelectedCharacter, whatever the id.
HandleSetSelectedCharacter(c) ==
  /\ last_selected_character' = c
  /\ storeOp' = [op |-> "select", id |-> c, selectedBefore |-> last_selected_character]
  /\ UNCHANGED <<characters, tokensIssued, dbCharacters>>
  /\ UNCHANGED notStore

\* auth:remove-character: removeCharacterAuth and nothing else.
HandleRemoveCharacter(c) ==
  /\ characters' = RemoveCharacters(characters, c)
  /\ last_selected_character' = RemoveSelected(characters, last_selected_character, c)
  /\ storeOp' = [op |-> "remove", id |-> c, selectedBefore |-> last_selected_character]
  /\ UNCHANGED <<tokensIssued, dbCharacters>>
  /\ UNCHANGED notStore

NextStore ==
  \/ \E c \in StoreIds : HandleInitiateAuth(c)
  \/ \E c \in StoreIds : HandleAuthCallbackStore(c)
  \/ \E c \in StoreIds : HandleSetSelectedCharacter(c)
  \/ \E c \in StoreIds : HandleRemoveCharacter(c)

\* ---------------------------------------------------------------- C18
\* C18: after auth:remove-character for an identity neither its AuthStore
\* record nor its row of the characters table remains.
C18_RemovalLeavesNoCredential ==
  [][\A c \in StoreIds :
       (storeOp' # storeOp /\ storeOp'.op = "remove" /\ storeOp'.id = c)
         => /\ characters'[c] = NoAuth
            /\ c \notin dbCharacters']_vars

\* ---------------------------------------------------------------- C19
\* C19: removeCharacterAuth(id) with the selected-identity pointer at id leaves
\* the pointer unset when no identity remains and at a stored identity
\* otherwise; with the pointer elsewhere it leaves the pointer as it was.
C19_RemovalKeepsPointerValid ==
  [][\A c \in StoreIds :
       (storeOp'.op = "remove" /\ storeOp'.id = c
          /\ storeOp'.selectedBefore = last_selected_character)
         => IF last_selected_character = c
              THEN IF Remaining(characters') = {}
                     THEN last_selected_character' = 0
                     ELSE last_selected_character' \in Remaining(characters')
              ELSE last_selected_character' = last_selected_character]_vars

\* The selected identity was removed while another one was stored, and the
\* pointer now names that one.
C19_Witness ==
  /\ storeOp.op = "remove"
  /\ storeOp.selectedBefore = storeOp.id
  /\ characters[storeOp.id] = NoAuth
  /\ last_selected_character \in Remaining(characters)

\* ====================================================================
\* Inventory.formatLocationInfo (Inventory.tsx 141-207)
\* ====================================================================
SecSpan == 2          \* security values tried on each side of a threshold

\* Security values are counted in units of 0.00001: 0.5 is 50000.
HIGH_SEC_MIN == 50000

Securities ==
  (0 - SecSpan..SecSpan) \cup (HIGH_SEC_MIN - SecSpan..HIGH_SEC_MIN + SecSpan)

LocationTypes == {"station", "solar_system", "structure", "unknown", "other"}

\* The records the renderer can hand over: resolved says whether
\* resolvedLocation is set, defined whether solarSystem?.security is not
\* undefined, inside whether location_id > 2000000000.
FormatInputs ==
  {a \in [resolved : BOOLEAN, locationType : LocationTypes, solarSystem : BOOLEAN,
          defined : BOOLEAN, security : Securities, region : BOOLEAN,
          inside : BOOLEAN] :
     /\ ~a.solarSystem => ~a.defined
     /\ ~a.defined => a.security = 0
     /\ ~a.resolved => (a.locationType = "unknown" /\ ~a.solarSystem /\ ~a.region)}

Pending == [text |-> "pending", className |-> "pending", securityClass |-> "pending"]

InitFormat ==
  /\ fasset \in FormatInputs
  /\ finfo = Pending

\* A classification that takes 0.5 itself for low security.
SecurityClassAbove(defined, security) ==
  IF ~defined THEN ""
  ELSE IF security > HIGH_SEC_MIN THEN "high-sec"
  ELSE IF security > 0 THEN "low-sec"
  ELSE "null-sec"

\* securityClass: '' unless solarSystem?.security is defined, then
\* >= 0.5 ? 'high-sec' : > 0.0 ? 'low-sec' : 'null-sec'.
SecurityClass(defined, security) ==
  IF ~defined THEN ""
  ELSE IF security >= HIGH_SEC_MIN THEN "high-sec"
  ELSE IF security > 0 THEN "low-sec"
  ELSE "null-sec"

\* The return value of formatLocationInfo, with the text reduced to its shape.
\* solarSystem.security.toFixed(1) throws when the security value is undefined.
FormatLocationInfoOf(a) ==
  LET securityClass == SecurityClass(a.defined, a.security)
      info(text, className) ==
        [text |-> text, className |-> className, securityClass |-> securityClass] IN
    IF ~a.resolved THEN [text |-> "Location id", className |-> "unknown", securityClass |-> ""]
    ELSE IF a.locationType \in {"station", "solar_system"}
      THEN IF a.solarSystem /\ a.region
             THEN IF ~a.defined
                    THEN info("TypeError", "TypeError")
                    ELSE info("name (security - region)", securityClass)
             ELSE info("name", "unknown")
    ELSE IF a.locationType = "structure" THEN info("name (Player Structure)", "structure")
    ELSE IF a.locationType = "unknown"
      THEN IF a.inside THEN info("Inside Item id", "unknown") ELSE info("name", "unknown")
    ELSE info("name (type)", "unknown")

\* The renderer calls formatLocationInfo(asset).
FormatLocationInfo ==
  /\ finfo = Pending
  /\ finfo' = FormatLocationInfoOf(fasset)
  /\ UNCHANGED fasset
  /\ UNCHANGED notFormat

NextFormat == FormatLocationInfo

\* ---------------------------------------------------------------- C21
\* C21: the security class derived from a security value s is high-sec when
\* s >= 0.5, low-sec when 0.0 < s < 0.5 and null-sec when s <= 0.0, and it is the
\* class name returned for a station or solar system with its region known.
C21_SecurityClassThresholds ==
  (finfo # Pending /\ fasset.resolved /\ fasset.defined)
    => LET expected == IF fasset.security >= 50000 THEN "high-sec"
                       ELSE IF fasset.security > 0 /\ fasset.security < 50000 THEN "low-sec"
                       ELSE "null-sec" IN
         /\ finfo.securityClass = expected
         /\ (fasset.locationType \in {"station", "solar_system"} /\ fasset.region)
              => finfo.className = expected

\* A station at exactly 0.5 has been classified.
C21_Witness ==
  /\ finfo # Pending
  /\ fasset.locationType = "station"
  /\ fasset.region
  /\ fasset.defined
  /\ fasset.security = 50000
  /\ finfo.className = "high-sec"

\* ====================================================================
\* Location resolution: getCharacterAssetsWithEnhancedLocationData
\* (esi-client.ts 376-420), DatabaseManager.resolveLocation and
\* getCharacterAssetsWithLocationData (unnamed/part_002 365-500)
\* ====================================================================
NStructures == 2      \* player structures records can be located at
NStations == 1        \* stations of the static data records can be located at
MaxRecords == 3       \* cached records of the identity

StructureIds == 1..NStructures
StationIds == (NStructures + 1)..(NStructures + NStations)
ResolvableIds == StructureIds \cup StationIds

InitResolve ==
  /\ rassets \in UNION {[1..n -> ResolvableIds] : n \in 0..MaxRecords}
  /\ locationMap = [l \in {} |-> 0]
  /\ ridx = 0
  /\ lookups = [x \in StructureIds |-> 0]
  /\ lookupsFailed = [x \in StructureIds |-> 0]
  /\ rresult = "pending"

\* resolveLocation: a station of the static data resolves to its name, an id
\* of the structure range to the placeholder `Structure ${locationId}`.
ResolveLocation(locationId) ==
  IF locationId \in StationIds
    THEN [locationType |-> "station", locationName |-> "station name"]
    ELSE [locationType |-> "structure", locationName |-> "Structure id"]

\* getCharacterAssetsWithLocationData: every distinct location id is resolved
\* once and every record refers to the object of its location id.
GetCharacterAssetsWithLocationData ==
  /\ ridx = 0
  /\ rresult = "pending"
  /\ locationMap' = [l \in {rassets[i] : i \in 1..Len(rassets)} |-> ResolveLocation(l)]
  /\ ridx' = 1
  /\ UNCHANGED <<rassets, lookups, lookupsFailed, rresult>>
  /\ UNCHANGED notResolve

\* The for loop is at a record whose resolved location is no structure.
EnhanceSkip ==
  /\ rresult = "pending"
  /\ ridx \in 1..Len(rassets)
  /\ locationMap[rassets[ridx]].locationType # "structure"
  /\ ridx' = ridx + 1
  /\ UNCHANGED <<rassets, locationMap, lookups, lookupsFailed, rresult>>
  /\ UNCHANGED notResolve

\* The for loop is at a record located at a structure: getStructureInfo is
\* called and answers, and the shared location object takes the real name.
EnhanceLookupAnswers ==
  /\ rresult = "pending"
  /\ ridx \in 1..Len(rassets)
  /\ locationMap[rassets[ridx]].locationType = "structure"
  /\ lookups' = [lookups EXCEPT ![rassets[ridx]] = @ + 1]
  /\ locationMap' = [locationMap EXCEPT ![rassets[ridx]].locationName = "real name"]
  /\ ridx' = ridx + 1
  /\ UNCHANGED <<rassets, lookupsFailed, rresult>>
  /\ UNCHANGED notResolve

\* A pass that gives up on the first failed lookup.
LookupErrorRethrown(result) == "failed"

\* The catch around the lookup logs a warning and leaves the pass as it is.
LookupErrorCaught(result) == result

\* The for loop is at a record located at a structure: getStructureInfo is
\* called and rejects.
EnhanceLookupFails ==
  /\ rresult = "pending"
  /\ ridx \in 1..Len(rassets)
  /\ locationMap[rassets[ridx]].locationType = "structure"
  /\ lookups' = [lookups EXCEPT ![rassets[ridx]] = @ + 1]
  /\ lookupsFailed' = [lookupsFailed EXCEPT ![rassets[ridx]] = @ + 1]
  /\ rresult' = LookupErrorCaught(rresult)
  /\ ridx' = ridx + 1
  /\ UNCHANGED <<rassets, locationMap>>
  /\ UNCHANGED notResolve

\* The loop is over: assetsWithLocationData is returned.
EnhanceReturn ==
  /\ rresult = "pending"
  /\ ridx > Len(rassets)
  /\ rresult' = "returned"
  /\ UNCHANGED <<rassets, locationMap, ridx, lookups, lookupsFailed>>
  /\ UNCHANGED notResolve

NextResolve ==
  \/ GetCharacterAssetsWithLocationData
  \/ EnhanceSkip
  \/ EnhanceLookupAnswers
  \/ EnhanceLookupFails
  \/ EnhanceReturn

\* The location name the returned record at index i shows.
ShownName(i) == locationMap[rassets[i]].locationName

\* ---------------------------------------------------------------- C22
\* C22: a failed structure lookup never fails the pass, and the pass returns
\* every record: records at a structure whose lookup failed (every time it
\* was issued in the pass) keep the placeholder name, records at a structure
\* with an answered lookup carry the real name and records at stations their
\* station name.
C22_FailedLookupsDegradeToPlaceholder ==
  /\ rresult # "failed"
  /\ rresult = "returned" =>
       \A i \in 1..Len(rassets) :
         LET l == rassets[i] IN
           /\ l \in DOMAIN locationMap
           /\ l \in StationIds => ShownName(i) = "station name"
           /\ (l \in StructureIds /\ lookupsFailed[l] = lookups[l])
                => ShownName(i) = "Structure id"
           /\ (l \in StructureIds /\ lookupsFailed[l] < lookups[l])
                => ShownName(i) = "real name"

\* A pass has returned in which every lookup of one structure failed and a
\* lookup of another structure was answered.
C22_Witness ==
  /\ rresult = "returned"
  /\ \E i, j \in 1..Len(rassets) :
       /\ rassets[i] \in StructureIds /\ rassets[j] \in StructureIds
       /\ lookupsFailed[rassets[i]] = lookups[rassets[i]]
       /\ lookupsFailed[rassets[j]] = 0
       /\ ShownName(i) = "Structure id"
       /\ ShownName(j) = "real name"

\* ---------------------------------------------------------------- C23
\* C23: within one pass at most one structure lookup is issued per distinct
\* structure id, however many records are located at that structure.
C23_OneLookupPerStructure ==
  \A x \in StructureIds : lookups[x] <= 1

\* ====================================================================
\* The expiry checks of the two credential stores
\* (unnamed/part_005 164-172, unnamed/part_003 207-215)
\* ====================================================================
ExpiryStartMs == 1000000  \* Date.now() when the model starts
ExpiryTickMs == 150000    \* milliseconds per clock step
MaxExpiryTicks == 10      \* clock steps

\* The margin of CharacterService.isTokenExpired.
EXPIRY_MARGIN_SEC == 300

NotAsked == [at |-> 0, storeExpires |-> 0, dbExpires |-> 0, store |-> FALSE, db |-> FALSE]

InitExpiry ==
  /\ enow = ExpiryStartMs
  /\ eticks = 0
  /\ storeExpires = 0
  /\ dbExpires = 0
  /\ expired = NotAsked

\* auth:initiate succeeds: handleCallback sets token_expires = Date.now() +
\* expires_in * 1000, storeCharacterAuth keeps it and syncCharacterAuth writes
\* the same number to the tokenExpires column of the characters row.
ExpiryAuthenticate ==
  /\ storeExpires' = enow + ExpiresInSec * 1000
  /\ dbExpires' = enow + ExpiresInSec * 1000
  /\ UNCHANGED <<enow, eticks, expired>>
  /\ UNCHANGED notExpiry

ExpiryTick ==
  /\ eticks < MaxExpiryTicks
  /\ eticks' = eticks + 1
  /\ enow' = enow + ExpiryTickMs
  /\ UNCHANGED <<storeExpires, dbExpires, expired>>
  /\ UNCHANGED notExpiry

\* AuthStore.isTokenExpired: token_expires < Date.now() + 300000.
AuthStoreIsTokenExpired(tokenExpires, now) ==
  tokenExpires = 0 \/ tokenExpires < now + EXPIRY_MARGIN_MS

\* CharacterService.isTokenExpired:
\* tokenExpires < Math.floor(Date.now() / 1000) + 300.
CharacterServiceIsTokenExpired(tokenExpires, now) ==
  tokenExpires = 0 \/ tokenExpires < (now \div 1000) + EXPIRY_MARGIN_SEC

\* Both stores are asked whether the token of the identity is expired.
ExpiryCheck ==
  /\ expired' = [at |-> enow, storeExpires |-> storeExpires, dbExpires |-> dbExpires,
                 store |-> AuthStoreIsTokenExpired(storeExpires, enow),
                 db |-> CharacterServiceIsTokenExpired(dbExpires, enow)]
  /\ UNCHANGED <<enow, eticks, storeExpires, dbExpires>>
  /\ UNCHANGED notExpiry

NextExpiry ==
  \/ ExpiryAuthenticate
  \/ ExpiryTick
  \/ ExpiryCheck

\* ---------------------------------------------------------------- C24
\* C24: for a credential written by the authentication flow each of the two
\* expiry checks answers true exactly when the identity has no credential or
\* its access expiry is less than 5 minutes after now.
C24_ExpiryChecksAgree ==
  expired # NotAsked =>
    /\ expired.store <=> (\/ expired.storeExpires = 0
                          \/ expired.storeExpires < expired.at + 5 * 60 * 1000)
    /\ expired.db <=> (\/ expired.dbExpires = 0
                       \/ expired.dbExpires < expired.at + 5 * 60 * 1000)

\* ---------------------------------------------------------------- C25
\* C25: a timer armed by one authentication attempt (its 6-second timer or its
\* 5-minute timer) never closes the listener of an attempt that was started
\* later on the same CallbackServer and has had no callback and not reached its
\* own timeout.
C25_TimerSparesLaterListener ==
  [][\A a, b \in Attempts :
       (/\ \/ graceAt[a] # 0 /\ graceAt'[a] = 0
           \/ timeoutAt[a] # 0 /\ timeoutAt'[a] = 0
        /\ aissued[b] > aissued[a]
        /\ graceAt[b] = 0
        /\ timeoutAt[b] > lnow)
         => ~(sock[b].st = "listening" /\ sock'[b].st = "closed")]_vars

\* ---------------------------------------------------------------- C26
\* C26: the callback of an attempt is validated against the state that was
\* issued for that attempt and exchanged with the verifier issued for it, also
\* when another initiateAuth has started in the meantime: a callback without
\* error parameter fails the state check exactly when its state parameter is
\* not the one issued for the attempt.
C26_CallbackCheckedAgainstOwnSession ==
  \A a \in Attempts :
    (/\ aissued[a] # 0
     /\ apc[a] \notin {"idle", "awaiting_callback"}
     /\ areason[a] # "timeout"
     /\ ~aurl[a].error)
      => /\ (areason[a] = "csrf_mismatch") <=> (aurl[a].state # aissued[a])
         /\ atokenReq[a] > 0 => averifier[a] = aissued[a]

\* ESI_CONFIG.REDIRECT_URI, 'http://localhost:8080/auth/callback': its port.
REDIRECT_URI_PORT == 8080

\* ---------------------------------------------------------------- C27
\* C27: the redirect_uri sent with the authorization-code exchange of an
\* attempt is the redirect_uri of its authorization URL, whatever port the
\* listener uses.
C27_ExchangeRedirectUriMatches ==
  \A a \in Attempts :
    (atokenReq[a] > 0 /\ redirectPort[a] # 0) => REDIRECT_URI_PORT = redirectPort[a]

\* The places (group key, position) at which the record with item id id
\* stands in the result.
Occurrences(id) ==
  {km \in GroupKeys \X (1..(2 * MaxAssets)) :
     km[2] <= Len(grouped[km[1]]) /\ grouped[km[1]][km[2]] = id}

\* ---------------------------------------------------------------- C28
\* C28: once groupAssetsByLocation has returned, every record of a set with
\* distinct item ids stands in exactly one group, exactly once, whatever the
\* order of the records: the groups partition the record set.
C28_GroupsPartitionRecords ==
  Grouped =>
    \A i \in 1..Len(assets) : Cardinality(Occurrences(assets[i].item_id)) = 1

\* ---- two synchronizations of one cache (getAndSyncCharacterAssets,
\* ---- syncCharacterAssets, storeCharacterAssets)
\* The flows of the renderer's two requests.
ResyncFlows == {1, 2}

InitResync ==
  /\ snow = SyncTickSec
  /\ assetsDb = [c \in SyncChars |-> {}]
  /\ lastSync = [c \in SyncChars |-> 0]
  /\ dbTurn = 0
  /\ flows = [f \in ResyncFlows |-> IdleFlow]

NextResync ==
  \/ \E f \in ResyncFlows : GetCharacterAssetsWithFallback(f)
  \/ \E f \in ResyncFlows : ListingFails(f)
  \/ \E f \in ResyncFlows : ListingAnswers(f)
  \/ \E f \in ResyncFlows : StoreDelete(f)
  \/ \E f \in ResyncFlows : StoreInsertBatch(f)
  \/ \E f \in ResyncFlows : UpdateLastSync(f)
  \/ \E f \in ResyncFlows : ReturnCachedData(f)
  \/ SyncTick

\* The flow has fetched a listing and its syncCharacterAssets has returned.
Synchronized(f) == flows[f].pc \in {"synced", "done"} /\ flows[f].syncedAt # 0

\* The rows storeCharacterAssets of flow f writes.
RowsOf(f) == {AssetRecord(a, flows[f].syncedAt) : a \in flows[f].fetched}

\* ---------------------------------------------------------------- C29
\* C29: once two synchronizations of the same identity have both returned,
\* however they interleaved, the cached rows of that identity are exactly the
\* rows of the listing one of them fetched: no mixture and no union of the two.
C29_CacheIsOneFetchedSet ==
  \A f, g \in DOMAIN flows :
    (/\ f # g /\ Synchronized(f) /\ Synchronized(g)
     /\ flows[f].char = flows[g].char
     /\ dbTurn = 0)
      => assetsDb[flows[f].char] \in {RowsOf(f), RowsOf(g)}

\* Both flows found the cache stale at the same instant, so they overlapped,
\* and they fetched different non-empty listings.
C29_Witness ==
  /\ flows[1].pc = "done" /\ flows[2].pc = "done" /\ dbTurn = 0
  /\ flows[1].char = flows[2].char
  /\ flows[1].guarded /\ flows[2].guarded
  /\ flows[1].syncedAt # 0 /\ flows[1].syncedAt = flows[2].syncedAt
  /\ flows[1].fetched # {} /\ flows[2].fetched # {}
  /\ flows[1].fetched # flows[2].fetched
  /\ assetsDb[flows[1].char] = RowsOf(2)

\* ---- the dispatch queue drains (esi-client.ts 86-111)
MaxRequests == 3      \* requests that enter the dispatch queue

\* A request enters the queue, MaxRequests of them at most.
QueueRequestEnters ==
  /\ qseq < MaxRequests
  /\ QueueRequest

NextQueueFair ==
  \/ QueueRequestEnters
  \/ QueueTimerExpires
  \/ QueueTick

\* The queue waits with the flag set and no timer that would clear it.
QueueStuck == Len(rateLimitQueue) > 0 /\ isProcessingQueue /\ ~timerArmed

\* ---------------------------------------------------------------- C30
\* C30: every request that enters the dispatch queue is eventually released
\* for dispatch, and the queue is never left non-empty with isProcessingQueue
\* set and no timer pending.
C30_EveryRequestReleased ==
  /\ []~QueueStuck
  /\ \A n \in 1..MaxRequests : (qseq >= n) ~> (qreleased >= n)

\* The last request waits behind the flag, with the timer that will release it
\* pending.
C30_Witness ==
  /\ qseq = MaxRequests
  /\ Len(rateLimitQueue) >= 1
  /\ qreleased < qseq
  /\ isProcessingQueue
  /\ timerArmed

\* The parts a specification leaves alone start at rest: an empty dispatch
\* queue, an empty cache and an empty record set.
QueueAtRest ==
  /\ qnow = 0 /\ timerDue = 0 /\ qseq = 0 /\ qidle = 0
  /\ windowStart = 0 /\ inWindow = 0 /\ qreleased = 0

SyncAtRest ==
  /\ snow = SyncTickSec
  /\ assetsDb = [c \in SyncChars |-> {}]
  /\ lastSync = [c \in SyncChars |-> 0]
  /\ dbTurn = 0
  /\ flows = [f \in SyncFlows |-> IdleFlow]

GroupAtRest ==
  /\ assets = <<>>
  /\ gidx = 1
  /\ grouped = [k \in GroupKeys |-> <<>>]
  /\ processedAssets = {}

RefreshAtRest == rflows = <<>>

BackoffAtRest == bnow = 0 /\ bcall = <<>>

DbAtRest == dbCharacters = {} /\ storeOp = NoStoreOp

LaterAtRest == RefreshAtRest /\ BackoffAtRest /\ DbAtRest

\* The parts that follow the store, at rest.
FormatAtRest == fasset = 0 /\ finfo = 0

ResolveAtRest == rassets = <<>> /\ locationMap = <<>> /\ ridx = 0 /\ lookups = <<>>
  /\ lookupsFailed = <<>> /\ rresult = "pending"

ExpiryAtRest == enow = 0 /\ eticks = 0 /\ storeExpires = 0 /\ dbExpires = 0 /\ expired = 0

MoreAtRest == FormatAtRest /\ ResolveAtRest /\ ExpiryAtRest

ListenAtRest ==
  /\ server = 0
  /\ port = PREFERRED_PORT
  /\ sock = [a \in Attempts |-> NoSocket]
  /\ timeoutAt = [a \in Attempts |-> 0]
  /\ graceAt = [a \in Attempts |-> 0]
  /\ redirectPort = [a \in Attempts |-> 0]
  /\ occupied = {}
  /\ lnow = 0
  /\ lwaits = 0

InitIdle == InitAuth /\ InitClient /\ QueueAtRest /\ SyncAtRest /\ GroupAtRest /\ ListenAtRest
  /\ LaterAtRest /\ MoreAtRest

SpecAuth == InitIdle /\ [][NextAuth]_vars

SpecClient == InitIdle /\ [][NextClient]_vars

InitQueueSpec == InitAuth /\ InitClient /\ InitQueue /\ SyncAtRest /\ GroupAtRest /\ ListenAtRest
  /\ LaterAtRest /\ MoreAtRest

SpecQueue == InitQueueSpec /\ [][NextQueue]_vars

\* A pending timer expires and time passes.
SpecQueueFair ==
  /\ InitQueueSpec
  /\ [][NextQueueFair]_vars
  /\ WF_vars(QueueTimerExpires)
  /\ WF_vars(QueueTick)

InitSyncSpec == InitAuth /\ InitClient /\ QueueAtRest /\ InitSync /\ GroupAtRest /\ ListenAtRest
  /\ LaterAtRest /\ MoreAtRest

SpecSync == InitSyncSpec /\ [][NextSync]_vars

InitResyncSpec == InitAuth /\ InitClient /\ QueueAtRest /\ InitResync /\ GroupAtRest /\ ListenAtRest
  /\ LaterAtRest /\ MoreAtRest

SpecResync == InitResyncSpec /\ [][NextResync]_vars

InitGroupSpec == InitAuth /\ InitClient /\ QueueAtRest /\ SyncAtRest /\ InitGroup /\ ListenAtRest
  /\ LaterAtRest /\ MoreAtRest

SpecGroup == InitGroupSpec /\ [][NextGroup]_vars

InitListenSpec == InitAuth /\ InitClient /\ QueueAtRest /\ SyncAtRest /\ GroupAtRest /\ InitListen
  /\ LaterAtRest /\ MoreAtRest

SpecListen == InitListenSpec /\ [][NextListen]_vars

InitRefreshSpec == InitAuth /\ InitRefresh /\ QueueAtRest /\ SyncAtRest /\ GroupAtRest /\ ListenAtRest
  /\ BackoffAtRest /\ DbAtRest /\ MoreAtRest

SpecRefresh == InitRefreshSpec /\ [][NextRefresh]_vars

InitBackoffSpec == InitAuth /\ InitClient /\ QueueAtRest /\ SyncAtRest /\ GroupAtRest /\ ListenAtRest
  /\ RefreshAtRest /\ InitBackoff /\ DbAtRest /\ MoreAtRest

SpecBackoff == InitBackoffSpec /\ [][NextBackoff]_vars

InitStoreSpec == InitAuth /\ InitStore /\ QueueAtRest /\ SyncAtRest /\ GroupAtRest /\ ListenAtRest
  /\ RefreshAtRest /\ BackoffAtRest /\ MoreAtRest

SpecStore == InitStoreSpec /\ [][NextStore]_vars

\* The specifications of the parts that follow the store.
InitFormatSpec == InitAuth /\ InitClient /\ QueueAtRest /\ SyncAtRest /\ GroupAtRest /\ ListenAtRest
  /\ LaterAtRest /\ InitFormat /\ ResolveAtRest /\ ExpiryAtRest

SpecFormat == InitFormatSpec /\ [][NextFormat]_vars

InitResolveSpec == InitAuth /\ InitClient /\ QueueAtRest /\ SyncAtRest /\ GroupAtRest /\ ListenAtRest
  /\ LaterAtRest /\ InitResolve /\ FormatAtRest /\ ExpiryAtRest

SpecResolve == InitResolveSpec /\ [][NextResolve]_vars

InitExpirySpec == InitAuth /\ InitClient /\ QueueAtRest /\ SyncAtRest /\ GroupAtRest /\ ListenAtRest
  /\ LaterAtRest /\ InitExpiry /\ FormatAtRest /\ ResolveAtRest

SpecExpiry == InitExpirySpec /\ [][NextExpiry]_vars
====
